---- MODULE Spec2Model ----
(***************************************************************************)
(* Plane: the controller's backend tables (plane/src/database/backend.rs)  *)
(* and the drone's state store and executor (plane/src/drone).             *)
(*                                                                         *)
(* The specifications that share the module:                               *)
(*   SpecController  connect / update_state / status_stream                *)
(*   SpecCleanup     connect / update_state / run_cleanup                  *)
(*   SpecPass        the same, with cleanup passes that fail               *)
(*   SpecSweep       update_state / update_keepalive / expiration sweep    *)
(*   SpecWaiting     the expiration sweep over a backend that stays Waiting *)
(*   SpecDrone       Executor::new, apply_action and the StateStore        *)
(*   SpecBoot        Executor::new over any store an earlier run left      *)
(*   SpecRedeliver   the executor when Spawn actions are delivered again   *)
(*   SpecReconcile   Executor::new alone, run to its end                   *)
(*   SpecScheduler   run_scheduler / dispatch (controller/src/lib.rs)      *)
(*   SpecDispatch    run_scheduler with its tasks polled to their end      *)
(*   SpecProxy       the proxy's route map and routing decision            *)
(*   SpecForward     the proxy's routing with static tokens and paths      *)
(*   SpecRoute       route_info_for_token over the controller's tables     *)
(*   SpecKeyManager  the drone's KeyManager and its renewal tasks          *)
(*   SpecKeyTasks    the KeyManager when keys are registered again         *)
(*   SpecKeyStore    key acquisition, renewal and the fencing token        *)
(*   SpecCertManager the certificate lease of a cluster                    *)
(*   SpecServer      the HTTP server's graceful shutdown                   *)
(*   SpecSocket      the typed unix socket server's receive task           *)
(*   SpecExecutor    Executor::apply_action(Terminate) and its listener    *)
(*   SpecControllerServer  ControllerServer: heartbeats, run and terminate *)
(***************************************************************************)
EXTENDS Integers, Sequences, FiniteSets, TLC

\* ------------------------------------------------------------------ bounds
MaxBackends == 2
MaxJournalRows == 3
MaxClock == 3

\* ------------------------------------------------- controller: the tables
VARIABLES
    backend,        \* table backend: id -> row
    backend_key,    \* table backend_key: set of [id, key]
    backend_state,  \* table backend_state (the journal): id -> Seq(state), in id order
    backend_action, \* table backend_action: set of [backend_id, action]
    token,          \* table token: set of backend ids that own a token row
    sub,            \* one status_stream subscriber
    last_call,      \* the most recent controller call and what it returned
    clock,          \* the database's now()
    timers,         \* table backend, the columns drone_id, last_keepalive,
                    \* allowed_idle_seconds and expiration_time: id -> row
    sweep           \* the termination candidates the sweep has yet to act on

\* The state the expiration sweep adds to the tables.
sweepVars == <<clock, timers, sweep>>

ctlVars == <<backend, backend_key, backend_state, backend_action, token, sub,
             last_call, sweepVars>>

\* The drone's state.
VARIABLES
    store_backend,     \* state store, table "backend": id -> state
    event,             \* state store, table "event": set of [id, backend_id, event, timestamp]
    next_event_id,     \* the autoincrement counter of "event"
    last_insert_rowid, \* the connection's last_insert_rowid()
    listener,          \* StateStore.listener is Some
    recv,              \* the messages the last step handed to the listener
    now,               \* Utc::now()
    phase,             \* "new" | "reconcile" | "running" | "aborted"
    tasks,             \* terminate_preexisting_backends: backend -> task
    exit_listener,     \* the runtime-exit listener task has been started
    managers,          \* Executor.backends: backend -> [timestamp, state]
    spawned,           \* a Spawn action has been applied
    nrun,              \* register_event calls this process has committed
    containers,        \* the runtime's running containers
    terminate_calls    \* the backends runtime.terminate(_, hard = true) was called for

droneVars == <<store_backend, event, next_event_id, last_insert_rowid, listener, recv,
               now, phase, tasks, exit_listener, managers, spawned, nrun,
               containers, terminate_calls>>

\* ------------------------------------------- scheduler (controller/src/lib.rs)
VARIABLES
    task,            \* the dispatch task of each schedule request: id -> task
    world,           \* StateHandle: the cluster state built from the state stream
    jetstream,       \* the WorldStateMessages published so far, in sequence order
    lock_to_ready,   \* WaitMap: lock -> Mutex<Option<ClosableNotify>> (Null | seq)
    mutex,           \* the task that holds the guard of a lock's Mutex
    readers,         \* the tasks that hold a read guard of lock_to_ready
    spawn_requests   \* the SpawnRequests sent to drones, with the drone's reply

schedVars == <<task, world, jetstream, lock_to_ready, mutex, readers, spawn_requests>>

\* ------------------------------------------------------------------ proxy
VARIABLES
    root_redirect,   \* ProxyState::new(root_redirect_url): "none" or the URL
    route_map,       \* the route map: token -> [state, info, waiters]
    channel,         \* RouteInfoRequests handed to the sender, not yet received
    inbox,           \* tokens whose RouteInfoRequest was received and not answered
    sent,            \* every RouteInfoRequest issued: [token, by]
    http             \* the HTTP requests the proxy has accepted: id -> request

proxyVars == <<root_redirect, route_map, channel, inbox, sent, http>>

\* ------------------------------------------------------------ key manager
VARIABLES
    key_clock,       \* SystemTime::now() on the drone
    watch,           \* the watch channel of each register_key call:
                     \* channel -> [key, value, version, closed]
    key_tasks,       \* the renew_key_loop task spawned on each channel's receiver:
                     \* channel -> [pc, seen, key]
    key_outbox,      \* the messages the key manager has sent on its socket sender
    key_signals,     \* the termination signals the key manager has raised
    key_warned       \* the keys "Received response for unknown key." was logged for

keyVars == <<key_clock, watch, key_tasks, key_outbox, key_signals, key_warned>>

\* -------------------------------------------------- controller: fencing keys
VARIABLES
    key_rows,        \* the stored acquisition of each held key: key -> [token, renewals]
    fencing_seq,     \* the fencing token most recently issued for each key
    acquired,        \* every AcquiredKey handed out: set of [key, token, id]
    renew_result     \* the most recent renewal: [key, presented, stored, ok]

fenceVars == <<key_rows, fencing_seq, acquired, renew_result>>

\* ------------------------------------------- controller: certificate lease
VARIABLES
    cert_clock,      \* the controller's clock
    cert_lease,      \* the lease of the cluster: [holder, expires]
    last_granted,    \* the proxy the lease was most recently granted to
    txt_record,      \* the TXT value the controller hands to the DNS server
    grants,          \* what each proxy was granted and has not released:
                     \* proxy -> expiry
    cert_reply       \* the most recent CertManagerResponse: [proxy, request, accepted]

certVars == <<cert_clock, cert_lease, last_granted, txt_record, grants, cert_reply>>

\* ------------------------------------------------------------ HTTP server
VARIABLES
    srv_clock,       \* time on the server's host
    srv_phase,       \* "serving", "draining" (graceful shutdown begun) or "stopped"
    drain,           \* the shutdown in progress: [started, limit]
    srv_requests     \* the requests clients have attempted: id -> [phase, status, work]

serverVars == <<srv_clock, srv_phase, drain, srv_requests>>

\* ------------------------------------------------------ typed unix socket
VARIABLES
    conn,            \* the connection handle_connection serves: "open", "eof" or
                     \* "read-error"
    wire,            \* the lines the client has written and recv_task has not read
    sent_lines,      \* every line the client has written, in order
    recv_log,        \* what recv_task did with each line it read: [line, outcome]
    request_rx,      \* what a subscriber of request_tx has been sent
    event_rx,        \* what a subscriber of event_tx has been sent
    subscribed       \* the channels that have a receiver: subset of {"request", "event"}

socketVars == <<conn, wire, sent_lines, recv_log, request_rx, event_rx, subscribed>>

\* ------------------------------------------------ executor: backends map
VARIABLES
    ex_backends,     \* Executor.backends: the names that have a manager in the map
    ex_guards,       \* the apply_action calls that hold a Ref into the map
    ex_thread,       \* the task the worker thread is running, or "free"
    ex_actions,      \* the apply_action(Terminate) calls: id -> [pc, backend]
    ex_listener,     \* the backend event listener: [pc, backend]
    ex_events,       \* exit events the runtime has produced and the listener has
                     \* not taken
    ex_calls         \* what was invoked on managers: set of [backend, call]

execVars == <<ex_backends, ex_guards, ex_thread, ex_actions, ex_listener, ex_events,
              ex_calls>>

\* ------------------------------------------- controller server: heartbeat
VARIABLES
    run_pc,          \* run_with_listener: "new", "first" (awaiting the first
                     \* heartbeat), "running" or "failed"
    heartbeat_handle,           \* the heartbeat task: "none", "sleep", "query"
                                \* (awaiting its query), "aborted" or "failed"
    hb_wire,         \* heartbeat queries sent to the database and not yet executed:
                     \* set of [by, online]
    hb_failed,       \* the senders whose query the database has turned down
    hb_log,          \* the is_online values the database has recorded, in order
    hb_sent,         \* the number of queries the heartbeat task has sent
    http_server,     \* the task spawned for the HTTP server: "none", "serving" or
                     \* "stopped"
    graceful_terminate_sender,  \* Option<oneshot::Sender<()>>: TRUE for Some
    server_handle,   \* Option<JoinHandle<..>>: TRUE for Some
    signals_sent,    \* the number of graceful-terminate signals sent
    terminate_pc     \* the terminate calls so far: call -> "offline", "join" or
                     \* "returned"

heartVars == <<run_pc, heartbeat_handle, hb_wire, hb_failed, hb_log, hb_sent,
               http_server, graceful_terminate_sender, server_handle, signals_sent,
               terminate_pc>>

vars == <<ctlVars, droneVars, schedVars, proxyVars, keyVars, fenceVars, certVars, serverVars, socketVars, execVars, heartVars>>

\* What a step of one component leaves alone.
outsideController == <<droneVars, schedVars, proxyVars, keyVars, fenceVars, certVars, serverVars, socketVars, execVars, heartVars>>
outsideDrone == <<ctlVars, schedVars, proxyVars, keyVars, fenceVars, certVars, serverVars, socketVars, execVars, heartVars>>
outsideScheduler == <<ctlVars, droneVars, proxyVars, keyVars, fenceVars, certVars, serverVars, socketVars, execVars, heartVars>>
outsideProxy == <<ctlVars, droneVars, schedVars, keyVars, fenceVars, certVars, serverVars, socketVars, execVars, heartVars>>
outsideKeyManager == <<ctlVars, droneVars, schedVars, proxyVars, fenceVars, certVars, serverVars, socketVars, execVars, heartVars>>
outsideKeyStore == <<ctlVars, droneVars, schedVars, proxyVars, keyVars, certVars, serverVars, socketVars, execVars, heartVars>>
outsideCertManager == <<ctlVars, droneVars, schedVars, proxyVars, keyVars, fenceVars, serverVars, socketVars, execVars, heartVars>>
outsideServer == <<ctlVars, droneVars, schedVars, proxyVars, keyVars, fenceVars, certVars, socketVars, execVars, heartVars>>
outsideSocket == <<ctlVars, droneVars, schedVars, proxyVars, keyVars, fenceVars, certVars, serverVars, execVars, heartVars>>
outsideExecutor == <<ctlVars, droneVars, schedVars, proxyVars, keyVars, fenceVars, certVars, serverVars, socketVars, heartVars>>
outsideHeartbeat == <<ctlVars, droneVars, schedVars, proxyVars, keyVars, fenceVars, certVars, serverVars, socketVars, execVars>>

Backends == 1..MaxBackends
Keys == {"k1"}
NoKey == "nokey"
Null == -1
NoAddress == "null"

Statuses == {"scheduled", "loading", "starting", "waiting", "ready",
             "terminating", "hard-terminating", "terminated"}

\* BackendStatus::as_int
as_int(status) ==
    CASE status = "scheduled" -> 1
      [] status = "loading" -> 10
      [] status = "starting" -> 20
      [] status = "waiting" -> 30
      [] status = "ready" -> 40
      [] status = "terminating" -> 50
      [] status = "hard-terminating" -> 60
      [] status = "terminated" -> 70

\* derive(PartialOrd) on BackendStatus: the order of the variants
StatusOrd(status) ==
    CASE status = "scheduled" -> 0
      [] status = "loading" -> 1
      [] status = "starting" -> 2
      [] status = "waiting" -> 3
      [] status = "ready" -> 4
      [] status = "terminating" -> 5
      [] status = "hard-terminating" -> 6
      [] status = "terminated" -> 7

\* BackendState values. Fields a variant does not carry hold "none".
St(status, address, last_status, kind, reason, exit_code) ==
    [status |-> status, address |-> address, last_status |-> last_status,
     kind |-> kind, reason |-> reason, exit_code |-> exit_code]

Plain(status) == St(status, "none", "none", "none", "none", "none")
Ready(address) == St("ready", address, "none", "none", "none", "none")
Terminating(last_status, kind, reason) ==
    IF kind = "hard"
    THEN St("hard-terminating", "none", last_status, "none", reason, "none")
    ELSE St("terminating", "none", last_status, "soft", reason, "none")
Terminated(last_status, reason, exit_code) ==
    St("terminated", "none", last_status, "none", reason, exit_code)

\* BackendState::address
address(state) == IF state.status = "ready" THEN state.address ELSE NoAddress

\* The states that drone messages and the termination endpoints hand to update_state.
UpdateInputs ==
    {Plain("scheduled"), Plain("loading"), Plain("starting"), Plain("waiting"),
     Ready("a1"), Ready("a2"),
     Terminating("ready", "soft", "External"),
     Terminating("ready", "hard", "External"),
     Terminated("ready", "External", "none")}

Exists(b) == b \in DOMAIN backend

\* The bearer tokens connect generates, one per backend name.
BearerTokenNames == <<"abc123", "def456", "ghi789">>
NoStaticToken == "null"

\* Mutant of is_static: no token is static.
is_staticNever(bearer) == FALSE

\* BearerToken::is_static: the token begins with "s.".
is_static(bearer) ==
    \E i \in DOMAIN BearerTokenNames : bearer = "s." \o BearerTokenNames[i]

\* The backend_state rows of backend b, in id order.
Journal(b) == IF b \in DOMAIN backend_state THEN backend_state[b] ELSE <<>>

TotalJournal == LET RECURSIVE Sum(_)
                    Sum(S) == IF S = {} THEN 0
                              ELSE LET x == CHOOSE y \in S : TRUE
                                   IN Len(backend_state[x]) + Sum(S \ {x})
                IN Sum(DOMAIN backend_state)

\* NOTIFY delivery: a payload emitted with key b reaches the subscriber iff its
\* subscription (subscribe_with_key) is open for b at commit time.
Deliver(b, state) ==
    IF sub.pc # "idle" /\ sub.backend = b
    THEN [sub EXCEPT !.queue = Append(@, state)]
    ELSE sub

\* emit_state_change: append to the backend_state journal and NOTIFY with the backend's key.
emit_state_change(b, new_state) ==
    /\ backend_state' = [x \in DOMAIN backend_state \cup {b} |->
                          IF x = b
                          THEN Append(Journal(b), new_state)
                          ELSE backend_state[x]]
    /\ sub' = Deliver(b, new_state)

\* How update_state's new status compares with the stored one (what its warning logs).
Compare(b, state) ==
    IF ~Exists(b) THEN "missing"
    ELSE IF backend[b].last_status_number = Null THEN "null"
    ELSE IF as_int(state.status) < backend[b].last_status_number THEN "smaller"
    ELSE IF as_int(state.status) = backend[b].last_status_number THEN "equal"
    ELSE "greater"

\* A call and what it returned; cmp is Compare at the time of an update_state call.
Call(op, b, k, state, result, spawn) ==
    [op |-> op, result |-> result, spawned |-> spawn,
     cmp |-> IF op = "update_state" THEN Compare(b, state) ELSE "none"]

\* nread: rows the journal read returned; nskipped: notifications dropped as duplicates.
IdleSub == [pc |-> "idle", backend |-> 0, result |-> <<>>, queue |-> <<>>,
            last_status |-> "none", yielded |-> <<>>, nread |-> 0, nskipped |-> 0]

\* NodeId of the drones.
Drones == {1, 2}
DefaultDrone == 1

\* The timing columns of a backend row.
Timers(drone_id, last_keepalive, allowed_idle_seconds, expiration_time) ==
    [drone_id |-> drone_id, last_keepalive |-> last_keepalive,
     allowed_idle_seconds |-> allowed_idle_seconds,
     expiration_time |-> expiration_time]

\* A backend spawned without max_idle_seconds and without a lifetime limit.
NoLimits(drone_id, t) == Timers(drone_id, t, Null, Null)

InitController ==
    /\ backend = <<>>
    /\ backend_key = {}
    /\ backend_state = <<>>
    /\ backend_action = {}
    /\ token = {}
    /\ sub = IdleSub
    /\ last_call = Call("none", 0, NoKey, Plain("scheduled"), "none", FALSE)
    /\ clock = 0
    /\ timers = <<>>
    /\ sweep = {}

\* ---------------------------------------------------------------- connect
\* The backend that holds key k (backend_key is unique on the key columns).
Holder(k) == (CHOOSE r \in backend_key : r.key = k).id

KeyHeld(k) == k # NoKey /\ \E r \in backend_key : r.key = k

\* A holder is compatible when it has not begun terminating.
Compatible(row) == StatusOrd(row.last_status) < StatusOrd("terminating")

\* BackendName generation: a name no backend row uses.
FreshBackend == CHOOSE b \in Backends \ DOMAIN backend :
                    \A c \in Backends \ DOMAIN backend : b <= c

\* connect, key held: return the live holder, or evict an unhealthy one
\* (Ready with a stale keepalive), or report the key as held.
ConnectHeld(k) ==
    /\ KeyHeld(k)
    /\ LET h == Holder(k)
           row == backend[h]
       IN \/ /\ Compatible(row)
             /\ last_call' = Call("connect", h, k, row.state, "ok", FALSE)
             /\ UNCHANGED backend_action
          \/ /\ row.last_status = "ready"
             /\ backend_action' = backend_action \cup
                                    {[backend_id |-> h, action |-> "terminate-hard"]}
             /\ last_call' = Call("connect", h, k, row.state, "KeyHeldUnhealthy", FALSE)
          \/ /\ ~Compatible(row)
             /\ last_call' = Call("connect", h, k, row.state, "KeyHeld", FALSE)
             /\ UNCHANGED backend_action
    /\ UNCHANGED <<backend, backend_key, backend_state, token, sub>>
    /\ UNCHANGED sweepVars
    /\ UNCHANGED outsideController

\* connect, key free (or no key): insert backend(Scheduled), backend_key, token and
\* backend_action(Spawn) in one transaction. The spawn configuration has
\* use_static_token: false.
ConnectSpawn(k) ==
    /\ ~KeyHeld(k)
    /\ DOMAIN backend # Backends
    /\ TotalJournal < MaxJournalRows
    /\ LET b == FreshBackend
           state == Plain("scheduled")
       IN /\ backend' = backend @@ (b :> [state |-> state,
                                          last_status |-> state.status,
                                          last_status_number |-> as_int(state.status),
                                          cluster_address |-> NoAddress,
                                          static_token |-> NoStaticToken,
                                          key |-> k])
          /\ backend_key' = IF k = NoKey THEN backend_key
                            ELSE backend_key \cup {[id |-> b, key |-> k]}
          /\ token' = token \cup {b}
          /\ backend_action' = backend_action \cup
                                 {[backend_id |-> b, action |-> "spawn"]}
          /\ emit_state_change(b, state)
          /\ last_call' = Call("connect", b, k, state, "ok", TRUE)
          /\ timers' = timers @@ (b :> NoLimits(DefaultDrone, clock))
    /\ UNCHANGED <<clock, sweep>>
    /\ UNCHANGED outsideController

Connect(k) == ConnectHeld(k) \/ ConnectSpawn(k)

\* ----------------------------------------------------------- update_state
\* Mutant of UpdateAccepts: the where clause compares with <=.
UpdateAcceptsEqualRank(last_status_number, new_status_number) ==
    \/ last_status_number = Null
    \/ last_status_number <= new_status_number

\* Mutant of UpdateAccepts: the rank guard is missing from the where clause.
UpdateAcceptsAnyRank(last_status_number, new_status_number) == TRUE

\* where ... and (last_status_number < $3 or last_status_number is null)
UpdateAccepts(last_status_number, new_status_number) ==
    \/ last_status_number = Null
    \/ last_status_number < new_status_number

\* Mutant of DeletesKey: the key is dropped as soon as the backend starts terminating.
DeletesKeyOnTerminating(new_state) ==
    new_state.status \in {"terminating", "hard-terminating", "terminated"}

\* Mutant of DeletesKey: update_state never deletes the key.
DeletesKeyNever(new_state) == FALSE

\* if matches!(new_state, BackendState::Terminated { .. })
DeletesKey(new_state) == new_state.status = "terminated"

update_state(b, new_state) ==
    /\ LET new_status_number == as_int(new_state.status)
       IN IF Exists(b) /\ UpdateAccepts(backend[b].last_status_number, new_status_number)
          THEN /\ TotalJournal < MaxJournalRows
               /\ backend' = [backend EXCEPT ![b] =
                                [@ EXCEPT !.last_status = new_state.status,
                                          !.last_status_number = new_status_number,
                                          !.cluster_address = address(new_state),
                                          !.state = new_state]]
               /\ backend_key' = IF DeletesKey(new_state)
                                 THEN {r \in backend_key : r.id # b}
                                 ELSE backend_key
               /\ emit_state_change(b, new_state)
               /\ last_call' = Call("update_state", b, NoKey, new_state, "true", FALSE)
               /\ UNCHANGED <<backend_action, token>>
          ELSE /\ last_call' = Call("update_state", b, NoKey, new_state, "false", FALSE)
               /\ UNCHANGED <<backend, backend_key, backend_state, backend_action,
                              token, sub>>

\* An update_state call on behalf of a drone message or a termination endpoint.
UpdateState(b, new_state) ==
    /\ update_state(b, new_state)
    /\ UNCHANGED sweepVars
    /\ UNCHANGED outsideController

\* ---------------------------------------------------------- status_stream
\* subscribe_with_key(backend): opened before the journal is read.
StatusStreamSubscribe(b) ==
    /\ sub.pc = "idle"
    /\ sub' = [IdleSub EXCEPT !.pc = "subscribed", !.backend = b]
    /\ UNCHANGED <<backend, backend_key, backend_state, backend_action, token,
                   last_call>>
    /\ UNCHANGED sweepVars
    /\ UNCHANGED outsideController

\* select ... from backend_state where backend_id = $1 order by id asc
StatusStreamRead ==
    /\ sub.pc = "subscribed"
    /\ sub' = [sub EXCEPT !.pc = "streaming",
                          !.result = Journal(sub.backend),
                          !.nread = Len(Journal(sub.backend))]
    /\ UNCHANGED <<backend, backend_key, backend_state, backend_action, token,
                   last_call>>
    /\ UNCHANGED sweepVars
    /\ UNCHANGED outsideController

\* for row in result { yield ...; last_status = Some(state.status()) }
YieldRow ==
    /\ sub.pc = "streaming"
    /\ sub.result # <<>>
    /\ sub' = [sub EXCEPT !.result = Tail(@),
                          !.yielded = Append(@, Head(sub.result)),
                          !.last_status = Head(sub.result).status]
    /\ UNCHANGED <<backend, backend_key, backend_state, backend_action, token,
                   last_call>>
    /\ UNCHANGED sweepVars
    /\ UNCHANGED outsideController

\* Mutant of Duplicate: notifications are yielded without the last_status check.
DuplicateNever(last_status, state) == FALSE

\* Mutant of Duplicate: only a strictly smaller status is dropped.
DuplicateStrict(last_status, state) ==
    /\ last_status # "none"
    /\ StatusOrd(state.status) < StatusOrd(last_status)

\* if let Some(last_status) = last_status { if state.status() <= last_status { continue } }
Duplicate(last_status, state) ==
    /\ last_status # "none"
    /\ StatusOrd(state.status) <= StatusOrd(last_status)

\* while let Some(item) = sub.next().await { ... }
YieldNotification ==
    /\ sub.pc = "streaming"
    /\ sub.result = <<>>
    /\ sub.queue # <<>>
    /\ LET state == Head(sub.queue)
       IN sub' = IF Duplicate(sub.last_status, state)
                 THEN [sub EXCEPT !.queue = Tail(@), !.nskipped = @ + 1]
                 ELSE [sub EXCEPT !.queue = Tail(@),
                                  !.yielded = Append(@, state),
                                  !.last_status = state.status]
    /\ UNCHANGED <<backend, backend_key, backend_state, backend_action, token,
                   last_call>>
    /\ UNCHANGED sweepVars
    /\ UNCHANGED outsideController

\* ------------------------------------------------------- expiration sweep
\* max_idle_seconds and the expiration times that connect is asked for.
IdleSeconds == {Null, 1}
ExpirationTimes == {Null, 2}

\* Time passes.
ClockTick ==
    /\ clock < MaxClock
    /\ clock' = clock + 1
    /\ UNCHANGED <<backend, backend_key, backend_state, backend_action, token, sub,
                   last_call, timers, sweep>>
    /\ UNCHANGED outsideController

\* update_keepalive: set last_keepalive = now() where id = $1; false when no row
\* was updated.
UpdateKeepalive(b) ==
    /\ IF Exists(b)
       THEN /\ timers' = [timers EXCEPT ![b].last_keepalive = clock]
            /\ last_call' = Call("update_keepalive", b, NoKey, Plain("scheduled"),
                                 "true", FALSE)
       ELSE /\ UNCHANGED timers
            /\ last_call' = Call("update_keepalive", b, NoKey, Plain("scheduled"),
                                 "false", FALSE)
    /\ UNCHANGED <<backend, backend_key, backend_state, backend_action, token, sub,
                   clock, sweep>>
    /\ UNCHANGED outsideController

\* Mutant of IdleExpired: a backend idle for exactly its allowance is taken too.
IdleExpiredInclusive(t, as_of) ==
    /\ t.allowed_idle_seconds # Null
    /\ as_of - t.last_keepalive >= t.allowed_idle_seconds

\* now() - last_keepalive > make_interval(secs => allowed_idle_seconds); a null
\* allowance makes the comparison null, which selects nothing.
IdleExpired(t, as_of) ==
    /\ t.allowed_idle_seconds # Null
    /\ as_of - t.last_keepalive > t.allowed_idle_seconds

\* Mutant of LifetimeExpired: the expiration time is not looked at.
LifetimeExpiredNever(t, as_of) == FALSE

\* now() > expiration_time; null selects nothing.
LifetimeExpired(t, as_of) ==
    /\ t.expiration_time # Null
    /\ as_of > t.expiration_time

\* The where clause of termination_candidates.
IsCandidate(b, drone_id) ==
    /\ timers[b].drone_id = drone_id
    /\ backend[b].last_status \notin {"scheduled", "terminated"}
    /\ (IdleExpired(timers[b], clock) \/ LifetimeExpired(timers[b], clock))

\* termination_candidates: one TerminationCandidate per selected row.
termination_candidates(drone_id) ==
    {[backend_id |-> b,
      expiration_time |-> timers[b].expiration_time,
      allowed_idle_seconds |-> timers[b].allowed_idle_seconds,
      last_keepalive |-> timers[b].last_keepalive,
      as_of |-> clock] : b \in {c \in DOMAIN backend : IsCandidate(c, drone_id)}}

\* A tick of the expiration sweep for one drone: fetch the candidates.
SweepTick(drone_id) ==
    /\ sweep = {}
    /\ sweep' = termination_candidates(drone_id)
    /\ last_call' = Call("termination_candidates", 0, NoKey, Plain("scheduled"),
                         IF termination_candidates(drone_id) = {} THEN "none"
                         ELSE "selected", FALSE)
    /\ UNCHANGED <<backend, backend_key, backend_state, backend_action, token, sub,
                   clock, timers>>
    /\ UNCHANGED outsideController

\* Why the sweep terminates a candidate.
SweepReason(candidate) ==
    IF IdleExpired(candidate, candidate.as_of) THEN "IdleTimeout" ELSE "Expired"

\* The sweep acts on one candidate of the tick: the backend is told to terminate
\* softly and its state becomes Terminating{Soft, reason}.
SweepTerminate(candidate) ==
    /\ candidate \in sweep
    /\ Exists(candidate.backend_id)
    /\ update_state(candidate.backend_id,
                    Terminating(backend[candidate.backend_id].last_status, "soft",
                                SweepReason(candidate)))
    /\ sweep' = sweep \ {candidate}
    /\ UNCHANGED <<clock, timers>>
    /\ UNCHANGED outsideController

\* The database after connect has created the backends of known (the first n
\* names) at time 0 from one spawn configuration (idle allowance and expiration
\* time), each on a drone of its own choosing.
InitSweep ==
    \E known \in {1..n : n \in Backends} :
    \E drone_id \in [known -> Drones] :
    \E allowed_idle_seconds \in IdleSeconds, expiration_time \in ExpirationTimes :
       /\ backend = [b \in known |-> [state |-> Plain("scheduled"),
                                      last_status |-> "scheduled",
                                      last_status_number |-> as_int("scheduled"),
                                      cluster_address |-> NoAddress,
                                      static_token |-> NoStaticToken,
                                      key |-> NoKey]]
       /\ backend_key = {}
       /\ backend_state = [b \in known |-> <<Plain("scheduled")>>]
       /\ backend_action = {[backend_id |-> b, action |-> "spawn"] : b \in known}
       /\ token = known
       /\ sub = IdleSub
       /\ last_call = Call("connect", 0, NoKey, Plain("scheduled"), "ok", TRUE)
       /\ clock = 0
       /\ timers = [b \in known |-> Timers(drone_id[b], 0, allowed_idle_seconds,
                                           expiration_time)]
       /\ sweep = {}

\* The states a drone reports while the sweep is watched: the backend has become
\* Ready, or its container has exited.
DroneReports == {Ready("a1"), Terminated("ready", "External", "none")}

\* The controller's database under drone reports, keepalives and the sweep.
NextSweep ==
    \/ ClockTick
    \/ \E b \in Backends, s \in DroneReports : UpdateState(b, s)
    \/ \E b \in Backends : UpdateKeepalive(b)
    \/ \E drone_id \in Drones : SweepTick(drone_id)
    \/ \E candidate \in sweep : SweepTerminate(candidate)

\* One backend that connect created, under any spawn configuration.
InitWaiting == InitSweep /\ DOMAIN backend = {1}

\* The drone reports that the backend's container has an address; the address never
\* becomes reachable, so Ready is never reported.
WaitingReports == {Plain("waiting")}

\* The controller's database while a backend stays in Waiting: no proxy routes to it,
\* so no KeepAlive arrives for it.
NextWaiting ==
    \/ ClockTick
    \/ \E b \in Backends, s \in WaitingReports : UpdateState(b, s)
    \/ \E drone_id \in Drones : SweepTick(drone_id)
    \/ \E candidate \in sweep : SweepTerminate(candidate)

\* Time passes and the sweep runs on its period for every drone.
FairWaiting ==
    /\ WF_vars(ClockTick)
    /\ \A drone_id \in Drones : WF_vars(SweepTick(drone_id))
    /\ WF_vars(\E candidate \in sweep : SweepTerminate(candidate))

\* ------------------------------------------------------------- route info
\* The token column of backend b's row in table token, and the static token connect
\* generates for b under use_static_token.
BearerTokenOf(b) == BearerTokenNames[b]
StaticTokenOf(b) == "s." \o BearerTokenNames[b]
RouteBearers == {BearerTokenOf(b) : b \in Backends} \cup
                {StaticTokenOf(b) : b \in Backends}

\* RouteInfoResult
NotFound == [kind |-> "NotFound", backend_id |-> 0, address |-> NoAddress]
Pending(b) == [kind |-> "Pending", backend_id |-> b, address |-> NoAddress]
Available(b, addr) == [kind |-> "Available", backend_id |-> b, address |-> addr]

\* Mutant of RouteGone: a backend that is terminating still counts as present.
RouteGoneTerminatedOnly(last_status) == last_status = "terminated"

\* "terminated" | "terminating" | "hard-terminating" => return Ok(NotFound)
RouteGone(last_status) ==
    last_status \in {"terminated", "terminating", "hard-terminating"}

\* What both queries do with the rows they fetched (limit 1, fetch_optional).
RouteInfoOfRows(rows) ==
    IF rows = {} THEN NotFound
    ELSE LET b == CHOOSE r \in rows : TRUE
             ready == backend[b].last_status = "ready"
         IN IF RouteGone(backend[b].last_status) THEN NotFound
            ELSE IF ~ready THEN Pending(b)
            ELSE IF backend[b].cluster_address = NoAddress THEN NotFound
            ELSE Available(b, backend[b].cluster_address)

\* from backend where backend.static_token = $1
route_info_for_static_token(bearer) ==
    RouteInfoOfRows({b \in DOMAIN backend : backend[b].static_token = bearer})

\* from token inner join backend on backend.id = token.backend_id where token = $1
route_info_for_token(bearer) ==
    IF is_static(bearer) THEN route_info_for_static_token(bearer)
    ELSE RouteInfoOfRows({b \in token \cap DOMAIN backend :
                             BearerTokenOf(b) = bearer})

\* The controller answers a RouteInfoRequest from the database.
RouteInfoForToken(bearer) ==
    /\ last_call' = Call("route_info_for_token", 0, NoKey, Plain("scheduled"),
                         route_info_for_token(bearer).kind, FALSE)
    /\ UNCHANGED <<backend, backend_key, backend_state, backend_action, token, sub>>
    /\ UNCHANGED sweepVars
    /\ UNCHANGED outsideController

\* The database after connect has created the backends of known (the first n
\* names), each with a row in table token or, under use_static_token, with a
\* static token on its backend row.
InitRoute ==
    \E known \in {1..n : n \in Backends} :
    \E static \in SUBSET known :
       /\ backend = [b \in known |->
                       [state |-> Plain("scheduled"),
                        last_status |-> "scheduled",
                        last_status_number |-> as_int("scheduled"),
                        cluster_address |-> NoAddress,
                        static_token |-> IF b \in static THEN StaticTokenOf(b)
                                         ELSE NoStaticToken,
                        key |-> NoKey]]
       /\ backend_key = {}
       /\ backend_state = [b \in known |-> <<Plain("scheduled")>>]
       /\ backend_action = {[backend_id |-> b, action |-> "spawn"] : b \in known}
       /\ token = known \ static
       /\ sub = IdleSub
       /\ last_call = Call("connect", 0, NoKey, Plain("scheduled"), "ok", TRUE)
       /\ clock = 0
       /\ timers = [b \in known |-> NoLimits(DefaultDrone, 0)]
       /\ sweep = {}

\* The controller's database under drone reports and route lookups.
NextRoute ==
    \/ \E b \in Backends, s \in UpdateInputs : UpdateState(b, s)
    \/ \E bearer \in RouteBearers : RouteInfoForToken(bearer)

\* ---------------------------------------------------------------- cleanup
\* limit $3: the batch sizes the cleanup loop is run with.
BatchSizes == {1, MaxBackends}

\* Mutant of CleanupSelects: the pass also takes backends that are still terminating.
CleanupSelectsTerminating(b) == backend[b].last_status \in {"terminating", "terminated"}

\* where last_status = $1 (Terminated). The age test (now() - last_status_time >
\* make_interval(days => $2)) is the argument old of Cleanup: neither clock is state
\* here, so any backend may have reached the minimum age.
CleanupSelects(b) == backend[b].last_status = "terminated"

\* The rows of the temporary table deleted_backend: at most batch_size of the
\* selected backends, whichever the database returns first.
DeletedBackendTables(old, batch_size) ==
    LET selected == {b \in old \cap DOMAIN backend : CleanupSelects(b)}
    IN {D \in SUBSET selected :
          Cardinality(D) = IF Cardinality(selected) < batch_size
                           THEN Cardinality(selected) ELSE batch_size}

\* The five tables as one value.
Tables == [backend |-> backend, backend_key |-> backend_key,
           backend_state |-> backend_state, backend_action |-> backend_action,
           token |-> token]

\* BackendDatabase::cleanup, one transaction: delete the token, backend_action,
\* backend_key (expired rows only), backend_state and backend rows of
\* deleted_backend. The value is the tables at commit.
Cleanup(deleted_backend, expired) ==
    [token          |-> token \ deleted_backend,
     backend_action |-> {a \in backend_action : a.backend_id \notin deleted_backend},
     backend_key    |-> {r \in backend_key :
                            ~(r.id \in deleted_backend /\ r \in expired)},
     backend_state  |-> [x \in DOMAIN backend_state \ deleted_backend |->
                            backend_state[x]],
     backend        |-> [x \in DOMAIN backend \ deleted_backend |-> backend[x]]]

\* connect::clean_up_tokens over the tables db: removes token rows that have
\* outlived their backend (swept). The value is the token table afterwards.
clean_up_tokens(db, swept) ==
    db.token \ {b \in swept : \/ b \notin DOMAIN db.backend
                              \/ db.backend[b].last_status = "terminated"}

\* run_cleanup: the backend cleanup when min_age_days is Some, then clean_up_tokens.
RunCleanup(min_age_days, old, batch_size, deleted_backend, expired, swept) ==
    /\ deleted_backend \in DeletedBackendTables(old, batch_size)
    /\ LET db == IF min_age_days = "Some" THEN Cleanup(deleted_backend, expired)
                 ELSE Tables
       IN /\ backend' = db.backend
          /\ backend_key' = db.backend_key
          /\ backend_state' = db.backend_state
          /\ backend_action' = db.backend_action
          /\ token' = clean_up_tokens(db, swept)
    /\ last_call' = Call("cleanup", 0, NoKey, Plain("scheduled"),
                         IF min_age_days # "Some" THEN "skipped"
                         ELSE IF deleted_backend = {} THEN "none" ELSE "deleted",
                         FALSE)
    /\ timers' = [x \in DOMAIN timers \ (IF min_age_days = "Some" THEN deleted_backend
                                           ELSE {}) |-> timers[x]]
    /\ UNCHANGED <<sub, clock, sweep>>
    /\ UNCHANGED outsideController

\* The delete statements of cleanup, in the order of the code: token,
\* backend_action, backend_key, backend_state, backend.
CleanupStatements == 5

\* The tables inside the transaction after the first n delete statements.
CleanupPartial(deleted_backend, expired, n) ==
    LET db == Cleanup(deleted_backend, expired)
    IN [token          |-> IF n >= 1 THEN db.token ELSE token,
        backend_action |-> IF n >= 2 THEN db.backend_action ELSE backend_action,
        backend_key    |-> IF n >= 3 THEN db.backend_key ELSE backend_key,
        backend_state  |-> IF n >= 4 THEN db.backend_state ELSE backend_state,
        backend        |-> IF n >= 5 THEN db.backend ELSE backend]

\* Mutant of Rollback: the statements run outside a transaction and stay applied.
RollbackKeeps(db) == db

\* The transaction is dropped without commit: the tables are as before begin().
Rollback(db) == Tables

\* BackendDatabase::cleanup, failed: the statement after the first n deletes (the
\* create table for n = 0, the commit for n = 5) returned an error and `?` leaves
\* the function, dropping the transaction.
CleanupErr(old, batch_size, deleted_backend, expired, n) ==
    /\ deleted_backend \in DeletedBackendTables(old, batch_size)
    /\ LET db == Rollback(CleanupPartial(deleted_backend, expired, n))
       IN /\ backend' = db.backend
          /\ backend_key' = db.backend_key
          /\ backend_state' = db.backend_state
          /\ backend_action' = db.backend_action
          /\ token' = db.token
    /\ last_call' = Call("cleanup", 0, NoKey, Plain("scheduled"), "error", FALSE)
    /\ UNCHANGED <<sub, clock, sweep, timers>>
    /\ UNCHANGED outsideController

\* The controller's database under connect, update_state and the cleanup loop.
NextCleanup ==
    \/ \E k \in Keys \cup {NoKey} : Connect(k)
    \/ \E b \in Backends, s \in UpdateInputs : UpdateState(b, s)
    \/ \E min_age_days \in {"None", "Some"}, old \in SUBSET DOMAIN backend,
          batch_size \in BatchSizes :
       \E deleted_backend \in DeletedBackendTables(old, batch_size),
          expired \in SUBSET backend_key, swept \in SUBSET token :
          RunCleanup(min_age_days, old, batch_size, deleted_backend, expired, swept)

\* The same, with cleanup passes that fail at any of their statements.
NextPass ==
    \/ NextCleanup
    \/ \E old \in SUBSET DOMAIN backend, batch_size \in BatchSizes :
       \E deleted_backend \in DeletedBackendTables(old, batch_size),
          expired \in SUBSET backend_key, n \in 0..CleanupStatements :
          CleanupErr(old, batch_size, deleted_backend, expired, n)

NextController ==
    \/ \E k \in Keys \cup {NoKey} : Connect(k)
    \/ \E b \in Backends, s \in UpdateInputs : UpdateState(b, s)
    \/ \E b \in Backends : StatusStreamSubscribe(b)
    \/ StatusStreamRead
    \/ YieldRow
    \/ YieldNotification

\* =================================================================== drone
\* ------------------------------------------------------------------ bounds
MaxDroneBackends == 2
MaxEvents == 2
MaxTime == 2

\* for attempt in 1..=10
MaxAttempts == 10

DroneBackends == 1..MaxDroneBackends

\* BackendState::to_terminating
to_terminating(state, kind, reason) == Terminating(state.status, kind, reason)

\* BackendState::to_terminated
to_terminated(state, exit_code) == Terminated(state.status, "none", exit_code)

\* BackendStateMessage
Msg(event_id, backend_id, state, timestamp) ==
    [event_id |-> event_id, backend_id |-> backend_id, state |-> state,
     timestamp |-> timestamp]

\* ------------------------------------------------------------- StateStore
\* The rowid an insert into "backend" leaves in last_insert_rowid: the upsert of an
\* existing id takes the DO UPDATE path and inserts nothing.
RowidAfterUpsert(b, rowid) ==
    IF b \in DOMAIN store_backend THEN rowid
    ELSE Cardinality(DOMAIN store_backend) + 1

\* The rowid the insert into "event" leaves in last_insert_rowid.
RowidAfterEventInsert(rowid) == next_event_id

\* Mutant of LastInsertRowid: the event is inserted before the backend upsert.
LastInsertRowidUpsertLast(b) ==
    RowidAfterUpsert(b, RowidAfterEventInsert(last_insert_rowid))

\* last_insert_rowid() after the transaction: upsert "backend", then insert "event".
LastInsertRowid(b) ==
    RowidAfterEventInsert(RowidAfterUpsert(b, last_insert_rowid))

\* Mutant of Upsert: on conflict do nothing, the row of a known backend keeps its state.
UpsertIgnore(b, state) ==
    [x \in DOMAIN store_backend \cup {b} |->
       IF x = b /\ b \notin DOMAIN store_backend THEN state ELSE store_backend[x]]

\* insert into "backend" (id, state) values (?, ?)
\* on conflict (id) do update set state = excluded.state
Upsert(b, state) ==
    [x \in DOMAIN store_backend \cup {b} |->
       IF x = b THEN state ELSE store_backend[x]]

\* register_event, committed: upsert the backend row, append the event, then invoke
\* the listener (if any) with the event id read from last_insert_rowid().
RegisterEventOk(b, state, timestamp) ==
    /\ store_backend' = Upsert(b, state)
    /\ event' = event \cup {[id |-> next_event_id, backend_id |-> b,
                             event |-> state, timestamp |-> timestamp]}
    /\ next_event_id' = next_event_id + 1
    /\ last_insert_rowid' = LastInsertRowid(b)
    /\ recv' = IF listener
               THEN <<Msg(last_insert_rowid', b, state, timestamp)>>
               ELSE <<>>

\* register_event, failed: a statement or the commit returned an error; the
\* transaction is rolled back and the function returns before the listener is reached.
RegisterEventErr(b) ==
    /\ UNCHANGED <<store_backend, event, next_event_id, last_insert_rowid>>
    /\ recv' = <<>>

\* order by timestamp asc. SQL leaves the order of rows with equal timestamps open;
\* they are taken in rowid order, the order in which they were registered.
EventBefore(e1, e2) ==
    \/ e1.timestamp < e2.timestamp
    \/ e1.timestamp = e2.timestamp /\ e1.id < e2.id

\* Mutant of UnackedRows: only the newest event of each backend is selected.
UnackedRowsLatest ==
    {e \in event : \A f \in event : f.backend_id = e.backend_id => f.id <= e.id}

\* select id, backend_id, event, timestamp from "event"
UnackedRows == event

\* unacked_events
RECURSIVE Ordered(_)
Ordered(rows) ==
    IF rows = {} THEN <<>>
    ELSE LET first == CHOOSE e \in rows : \A f \in rows \ {e} : EventBefore(e, f)
         IN <<Msg(first.id, first.backend_id, first.event, first.timestamp)>>
            \o Ordered(rows \ {first})

unacked_events == Ordered(UnackedRows)

\* register_listener: replay the unacked events to the listener, then install it.
RegisterListener ==
    /\ phase = "running"
    /\ recv' = unacked_events
    /\ listener' = TRUE
    /\ UNCHANGED <<store_backend, event, next_event_id, last_insert_rowid, now, phase,
                   tasks, exit_listener, managers, spawned, nrun, containers,
                   terminate_calls>>
    /\ UNCHANGED outsideDrone

\* Mutant of AckRemoves: the ack also removes every earlier event.
AckRemovesUpTo(row, event_id) == row.id <= event_id

\* delete from "event" where id = ?
AckRemoves(row, event_id) == row.id = event_id

\* ack_event
AckEvent(event_id) ==
    /\ phase = "running"
    /\ event' = {row \in event : ~AckRemoves(row, event_id)}
    /\ recv' = <<>>
    /\ UNCHANGED <<store_backend, next_event_id, last_insert_rowid, listener, now,
                   phase, tasks, exit_listener, managers, spawned, nrun, containers,
                   terminate_calls>>
    /\ UNCHANGED outsideDrone

\* active_backends
active_backends ==
    {b \in DOMAIN store_backend : store_backend[b].status # "terminated"}

\* --------------------------------------------------------------- Executor
NoTasks == <<>>

\* The state store file as an earlier run of the drone left it: each backend is
\* unknown, or was left Ready or Terminated. The i-th known backend used event ids
\* 2i-1 and 2i; the first was acked, the last (its current state) may still be
\* unacked. The container of a backend left Ready may still be running.
PriorStates == {Ready("a1"), Terminated("ready", "none", "none")}

PriorEventId(known, b) == 2 * Cardinality({c \in known : c <= b})

InitStore(known) ==
    /\ store_backend \in [known -> PriorStates]
    /\ \E unacked \in SUBSET known :
         event = {[id |-> PriorEventId(known, b), backend_id |-> b,
                   event |-> store_backend[b], timestamp |-> 0] : b \in unacked}
    /\ next_event_id = 2 * Cardinality(known) + 1
    /\ containers \in SUBSET {b \in known : store_backend[b].status = "ready"}
    /\ last_insert_rowid = 0
    /\ listener = FALSE
    /\ recv = <<>>
    /\ now = 1
    /\ tasks = NoTasks
    /\ managers = <<>>
    /\ spawned = FALSE
    /\ nrun = 0
    /\ terminate_calls = {}

\* A drone that starts with an empty store or with one backend from an earlier run.
InitDrone ==
    /\ \E known \in {{}, {1}} : InitStore(known)
    /\ phase = "new"
    /\ exit_listener = FALSE

\* A drone that starts with any set of backends from an earlier run, their last
\* events all acked or all unacked.
InitBoot ==
    /\ \E known \in SUBSET DroneBackends : InitStore(known)
    /\ Cardinality(event) \in {0, Cardinality(DOMAIN store_backend)}
    /\ phase = "new"
    /\ exit_listener = FALSE

\* A drone that starts with the first n backends from an earlier run, their events
\* all acked.
InitReconcile ==
    /\ \E n \in 0..MaxDroneBackends : InitStore(1..n)
    /\ event = {}
    /\ phase = "new"
    /\ exit_listener = FALSE

\* The drone is not part of the controller's specification.
DroneIdle ==
    /\ store_backend = <<>>
    /\ event = {}
    /\ next_event_id = 1
    /\ last_insert_rowid = 0
    /\ listener = FALSE
    /\ recv = <<>>
    /\ now = 1
    /\ phase = "new"
    /\ tasks = NoTasks
    /\ exit_listener = FALSE
    /\ managers = <<>>
    /\ spawned = FALSE
    /\ nrun = 0
    /\ containers = {}
    /\ terminate_calls = {}

\* Utc::now() advances.
Tick ==
    /\ now < MaxTime
    /\ now' = now + 1
    /\ recv' = <<>>
    /\ UNCHANGED <<store_backend, event, next_event_id, last_insert_rowid, listener,
                   phase, tasks, exit_listener, managers,
                   spawned, nrun, containers, terminate_calls>>
    /\ UNCHANGED outsideDrone

\* terminate_preexisting_backends: let backends = state_store.active_backends()?
\* and one task per backend. When the query fails, `?` returns the error and the
\* expect() in Executor::new panics.
BootEnumerate ==
    /\ phase = "new"
    /\ \/ /\ tasks' = [b \in active_backends |->
                         [pc |-> "register", attempt |-> 0, success |-> FALSE,
                          state |-> store_backend[b]]]
          /\ phase' = "reconcile"
       \/ /\ tasks' = tasks
          /\ phase' = "aborted"
    /\ recv' = <<>>
    /\ UNCHANGED <<store_backend, event, next_event_id, last_insert_rowid, listener,
                   now, exit_listener, managers, spawned, nrun,
                   containers, terminate_calls>>
    /\ UNCHANGED outsideDrone

\* The task registers state.to_terminating(Hard, KeyExpired); a failure panics.
TaskRegisterTerminating(b) ==
    /\ phase = "reconcile"
    /\ b \in DOMAIN tasks
    /\ tasks[b].pc = "register"
    /\ \/ /\ RegisterEventOk(b, to_terminating(tasks[b].state, "hard", "KeyExpired"), now)
          /\ tasks' = [tasks EXCEPT ![b].pc = "terminate", ![b].attempt = 1]
          /\ phase' = phase
          /\ nrun' = nrun + 1
       \/ /\ RegisterEventErr(b)
          /\ phase' = "aborted"
          /\ tasks' = tasks
          /\ nrun' = nrun
    /\ UNCHANGED <<listener, now, exit_listener, managers, spawned, containers,
                   terminate_calls>>
    /\ UNCHANGED outsideDrone

\* Mutant of TerminateEnds: the loop runs all its attempts, whatever the result.
TerminateEndsLastAttempt(attempt, ok) == attempt = MaxAttempts

\* The retry loop ends on Ok(()) or after the last attempt.
TerminateEnds(attempt, ok) == ok \/ attempt = MaxAttempts

\* runtime.terminate(&backend_id, true).await: Ok kills the container, Err leaves it.
TaskTerminate(b, ok) ==
    /\ phase = "reconcile"
    /\ b \in DOMAIN tasks
    /\ tasks[b].pc = "terminate"
    /\ containers' = IF ok THEN containers \ {b} ELSE containers
    /\ tasks' = IF TerminateEnds(tasks[b].attempt, ok)
                THEN [tasks EXCEPT ![b].pc = "finish", ![b].attempt = 0,
                                   ![b].success = ok]
                ELSE [tasks EXCEPT ![b].attempt = @ + 1, ![b].success = ok]
    /\ terminate_calls' = terminate_calls \cup {b}
    /\ recv' = <<>>
    /\ UNCHANGED <<store_backend, event, next_event_id, last_insert_rowid, listener,
                   now, phase, exit_listener, managers, spawned, nrun>>
    /\ UNCHANGED outsideDrone

\* The task registers state.to_terminated(None), whether or not a call succeeded,
\* and ends; a failure panics.
TaskRegisterTerminated(b) ==
    /\ phase = "reconcile"
    /\ b \in DOMAIN tasks
    /\ tasks[b].pc = "finish"
    /\ \/ /\ RegisterEventOk(b, to_terminated(tasks[b].state, "none"), now)
          /\ tasks' = [tasks EXCEPT ![b].pc = "done", ![b].success = FALSE]
          /\ phase' = phase
          /\ nrun' = nrun + 1
       \/ /\ RegisterEventErr(b)
          /\ phase' = "aborted"
          /\ tasks' = tasks
          /\ nrun' = nrun
    /\ UNCHANGED <<listener, now, exit_listener, managers, spawned, containers,
                   terminate_calls>>
    /\ UNCHANGED outsideDrone

\* Mutant of JoinAll: Executor::new does not await the reconciliation tasks.
JoinAllDetached == TRUE

\* join_all(tasks).await
JoinAll == \A b \in DOMAIN tasks : tasks[b].pc = "done"

\* Executor::new after terminate_preexisting_backends: start the runtime-exit
\* listener and return the executor.
BootFinish ==
    /\ phase = "reconcile"
    /\ JoinAll
    /\ exit_listener' = TRUE
    /\ phase' = "running"
    /\ recv' = <<>>
    /\ UNCHANGED <<store_backend, event, next_event_id, last_insert_rowid, listener,
                   now, tasks, managers, spawned, nrun, containers, terminate_calls>>
    /\ UNCHANGED outsideDrone

\* apply_action(Spawn): capture the timestamp, build a manager in
\* BackendState::default() and insert it; backends.insert replaces the manager the
\* table already holds for that backend, if any.
ApplySpawn(b) ==
    /\ phase = "running"
    /\ managers' = [x \in DOMAIN managers \cup {b} |->
                      IF x = b THEN [timestamp |-> now, state |-> Plain("scheduled")]
                      ELSE managers[x]]
    /\ spawned' = TRUE
    /\ recv' = <<>>
    /\ UNCHANGED <<store_backend, event, next_event_id, last_insert_rowid, listener,
                   now, phase, tasks, exit_listener, nrun,
                   containers, terminate_calls>>
    /\ UNCHANGED outsideDrone

\* The first Spawn action for a backend: the controller names every backend afresh
\* and sends one Spawn for it.
FirstSpawn(b) ==
    /\ b \notin DOMAIN managers /\ b \notin DOMAIN store_backend
    /\ ApplySpawn(b)

\* The backend manager's next state on the way to Ready.
ManagerNext(state) ==
    CASE state.status = "scheduled" -> {Plain("loading")}
      [] state.status = "loading" -> {Plain("starting")}
      [] state.status = "starting" -> {Plain("waiting")}
      [] state.status = "waiting" -> {Ready("a1")}
      [] OTHER -> {}

\* The manager reports a state through the callback apply_action gave it:
\* register_event(&backend_id, state, timestamp) with the captured timestamp.
\* The container runs once runtime.spawn has returned (Starting -> Waiting).
ManagerStep(b) ==
    /\ phase = "running"
    /\ b \in DOMAIN managers
    /\ nrun < MaxEvents
    /\ \E state \in ManagerNext(managers[b].state) :
         \/ /\ RegisterEventOk(b, state, managers[b].timestamp)
            /\ managers' = [managers EXCEPT ![b].state = state]
            /\ containers' = IF state.status = "waiting"
                             THEN containers \cup {b} ELSE containers
            /\ nrun' = nrun + 1
         \/ /\ RegisterEventErr(b)
            /\ UNCHANGED <<managers, containers, nrun>>
    /\ UNCHANGED <<listener, now, phase, tasks, exit_listener, spawned,
                   terminate_calls>>
    /\ UNCHANGED outsideDrone

\* Mutant of TerminateMissing: a Terminate for an unknown backend records Terminated.
TerminateMissingMarks(b) ==
    /\ RegisterEventOk(b, Terminated("scheduled", "External", "none"), now)
    /\ UNCHANGED <<managers, nrun>>

\* let Some(manager) = self.backends.get(backend_id) else { warn; return Ok(()) }
TerminateMissing(b) ==
    /\ UNCHANGED <<store_backend, event, next_event_id, last_insert_rowid,
                   managers, nrun>>
    /\ recv' = <<>>

\* apply_action(Terminate): a missing manager is assumed terminated; otherwise
\* manager.terminate(kind, reason) reports the terminating state.
ApplyTerminate(b, kind) ==
    /\ phase = "running"
    /\ IF b \notin DOMAIN managers
       THEN TerminateMissing(b)
       ELSE /\ StatusOrd(managers[b].state.status) < StatusOrd("terminating")
            /\ nrun < MaxEvents
            /\ LET state == to_terminating(managers[b].state, kind, "External")
               IN /\ RegisterEventOk(b, state, managers[b].timestamp)
                  /\ managers' = [managers EXCEPT ![b].state = state]
            /\ nrun' = nrun + 1
    /\ UNCHANGED <<listener, now, phase, tasks, exit_listener, spawned,
                   containers, terminate_calls>>
    /\ UNCHANGED outsideDrone

\* The runtime-exit listener: a container exits; if the backend has a manager it is
\* removed from the table and mark_terminated(exit_code) reports Terminated.
ContainerExit(b) ==
    /\ phase = "running"
    /\ exit_listener
    /\ b \in containers
    /\ containers' = containers \ {b}
    /\ IF b \in DOMAIN managers
       THEN /\ managers' = [x \in DOMAIN managers \ {b} |-> managers[x]]
            /\ \/ /\ nrun < MaxEvents
                  /\ RegisterEventOk(b, to_terminated(managers[b].state, 0),
                                     managers[b].timestamp)
                  /\ nrun' = nrun + 1
               \/ /\ RegisterEventErr(b)
                  /\ nrun' = nrun
       ELSE /\ UNCHANGED <<store_backend, event, next_event_id, last_insert_rowid,
                         managers, nrun>>
            /\ recv' = <<>>
    /\ UNCHANGED <<listener, now, phase, tasks, exit_listener, spawned,
                   terminate_calls>>
    /\ UNCHANGED outsideDrone

\* Executor::new
NextNew ==
    \/ BootEnumerate
    \/ \E b \in DroneBackends : TaskRegisterTerminating(b)
    \/ \E b \in DroneBackends, ok \in BOOLEAN : TaskTerminate(b, ok)
    \/ \E b \in DroneBackends : TaskRegisterTerminated(b)
    \/ BootFinish

NextDrone ==
    \/ Tick
    \/ NextNew
    \/ \E b \in DroneBackends : FirstSpawn(b)
    \/ \E b \in DroneBackends : ManagerStep(b)
    \/ \E b \in DroneBackends, kind \in {"soft", "hard"} : ApplyTerminate(b, kind)
    \/ \E b \in DroneBackends : ContainerExit(b)
    \/ RegisterListener
    \/ \E id \in 1..next_event_id : AckEvent(id)

\* Executor::new and the first calls the returned executor can serve.
NextBoot ==
    \/ NextNew
    \/ \E b \in DroneBackends : FirstSpawn(b)
    \/ \E b \in DroneBackends : ContainerExit(b)
    \/ RegisterListener

\* Executor::new is awaited to its end: its tasks are polled until join_all returns.
FairReconcile == WF_vars(NextNew)

\* The executor when the controller's unacked actions are redelivered: a Spawn can
\* arrive again for a backend that already has a manager.
NextRedeliver ==
    \/ Tick
    \/ NextNew
    \/ \E b \in DroneBackends : ApplySpawn(b)
    \/ \E b \in DroneBackends : ManagerStep(b)
    \/ \E b \in DroneBackends, kind \in {"soft", "hard"} : ApplyTerminate(b, kind)
    \/ \E b \in DroneBackends : ContainerExit(b)

\* =============================================================== scheduler
MaxRequests == 2

Requests == 1..MaxRequests
Locks == {"l1"}
NoLock == "nolock"
NoDrone == 0
NoResponse == [kind |-> "none"]
NoDroneAvailable == [kind |-> "NoDroneAvailable"]

\* ScheduleResponse::Scheduled
Scheduled(drone, backend_id, bearer_token, was_spawned) ==
    [kind |-> "Scheduled", drone |-> drone, backend_id |-> backend_id,
     bearer_token |-> bearer_token, spawned |-> was_spawned]

\* run_scheduler before the first request: an empty WaitMap and cluster state.
InitScheduler ==
    /\ task = <<>>
    /\ world = [seq |-> 0, locks |-> <<>>, backends |-> <<>>]
    /\ jetstream = <<>>
    /\ lock_to_ready = <<>>
    /\ mutex = [l \in Locks |-> 0]
    /\ readers = {}
    /\ spawn_requests = {}

\* A task that waits for, or holds, the write guard of lock_to_ready. The RwLock
\* is write-preferring: read guards are not handed out past a waiting writer.
WriterWaiting == \E q \in DOMAIN task : task[q].pc \in {"insert", "write"}

\* The requests that were answered, or whose task had died, by now.
Finished == {q \in DOMAIN task : task[q].pc \in {"done", "panicked"}}

\* run_scheduler: the next ScheduleRequest arrives and its task is spawned.
Receive(lock) ==
    /\ Cardinality(DOMAIN task) < MaxRequests
    /\ LET r == Cardinality(DOMAIN task) + 1
       IN task' = task @@ (r :> [lock |-> lock, pc |-> "start", after |-> Finished,
                                 st |-> 0, response |-> NoResponse])
    /\ UNCHANGED <<world, jetstream, lock_to_ready, mutex, readers, spawn_requests>>
    /\ UNCHANGED outsideScheduler

\* schedule_request.schedule(&drone): a SpawnRequest with a new backend id and a
\* new bearer token.
NewBackendId == Cardinality(spawn_requests) + 1
NewBearerToken == 100 + NewBackendId

\* BackendMessageType::Assignment published for an accepted spawn.
Assignment(backend_id, drone, lock, bearer_token) ==
    [type |-> "Assignment", backend |-> backend_id, drone |-> drone, lock |-> lock,
     bearer_token |-> bearer_token]

\* The state message a drone publishes when a backend has terminated.
TerminatedMessage(backend_id) ==
    [type |-> "Terminated", backend |-> backend_id, drone |-> NoDrone,
     lock |-> NoLock, bearer_token |-> 0]

\* The replies nats.request(&spawn_request) can produce.
SpawnReplies == {"true", "false", "error"}

\* spawn_backend: send the SpawnRequest to the drone; on Ok(true) publish the
\* Assignment and return (Scheduled{spawned: true}, Some(seq_id)); on Ok(false) or
\* Err return (NoDroneAvailable, None). The value is <<response, seq_id>>; the
\* primed variables are the request sent and the message published.
spawn_backend(r, drone, reply) ==
    /\ spawn_requests' = spawn_requests \cup
                           {[request |-> r, backend_id |-> NewBackendId,
                             drone |-> drone, reply |-> reply]}
    /\ jetstream' = IF reply = "true"
                    THEN Append(jetstream, Assignment(NewBackendId, drone,
                                                      task[r].lock, NewBearerToken))
                    ELSE jetstream

SpawnValue(drone, reply) ==
    IF reply = "true"
    THEN <<Scheduled(drone, NewBackendId, NewBearerToken, TRUE), Len(jetstream) + 1>>
    ELSE <<NoDroneAvailable, Null>>

\* Mutant of locked_backend: the lock is never found.
locked_backendNever(lock) == Null

\* locked_backend: the backend that holds the lock in the cluster state, if any.
locked_backend(lock) ==
    IF lock \in DOMAIN world.locks THEN world.locks[lock] ELSE Null

\* fetch_backend: the existing backend with its drone and bearer token.
fetch_backend(backend_id) ==
    Scheduled(world.backends[backend_id].drone, backend_id,
              world.backends[backend_id].bearer_token, FALSE)

\* dispatch without a lock: scheduler.schedule(..).unwrap(), then spawn_backend.
DispatchNoLock(r, drone, reply) ==
    /\ r \in DOMAIN task /\ task[r].pc = "start" /\ task[r].lock = NoLock
    /\ IF drone = NoDrone
       THEN /\ task' = [task EXCEPT ![r].pc = "panicked"]
            /\ UNCHANGED <<spawn_requests, jetstream>>
       ELSE /\ spawn_backend(r, drone, reply)
            /\ task' = [task EXCEPT ![r].pc = "done",
                                    ![r].response = SpawnValue(drone, reply)[1]]
    /\ UNCHANGED <<world, lock_to_ready, mutex, readers>>
    /\ UNCHANGED outsideScheduler

\* dispatch with a lock, lines 239-246: look the lock up under a read guard; when
\* it is missing, drop the guard and ask for the write guard.
CheckEntry(r) ==
    /\ r \in DOMAIN task /\ task[r].pc = "start" /\ task[r].lock # NoLock
    /\ ~WriterWaiting
    /\ task' = [task EXCEPT ![r].pc = IF task[r].lock \in DOMAIN lock_to_ready
                                      THEN "read" ELSE "insert"]
    /\ UNCHANGED <<world, jetstream, lock_to_ready, mutex, readers, spawn_requests>>
    /\ UNCHANGED outsideScheduler

\* wol.insert(lock, Mutex::new(None)) under the write guard.
InsertEntry(r) ==
    /\ r \in DOMAIN task /\ task[r].pc = "insert"
    /\ readers = {}
    /\ lock_to_ready' = [l \in DOMAIN lock_to_ready \cup {task[r].lock} |->
                           IF l = task[r].lock THEN Null ELSE lock_to_ready[l]]
    /\ task' = [task EXCEPT ![r].pc = "read"]
    /\ UNCHANGED <<world, jetstream, mutex, readers, spawn_requests>>
    /\ UNCHANGED outsideScheduler

\* let w = lock_to_ready.read().await
ReadGuard(r) ==
    /\ r \in DOMAIN task /\ task[r].pc = "read"
    /\ ~WriterWaiting
    /\ readers' = readers \cup {r}
    /\ task' = [task EXCEPT ![r].pc = "mutex"]
    /\ UNCHANGED <<world, jetstream, lock_to_ready, mutex, spawn_requests>>
    /\ UNCHANGED outsideScheduler

\* let mut l = a.lock().await
LockMutex(r) ==
    /\ r \in DOMAIN task /\ task[r].pc = "mutex"
    /\ mutex[task[r].lock] = 0
    /\ mutex' = [mutex EXCEPT ![task[r].lock] = r]
    /\ task' = [task EXCEPT ![r].pc = IF lock_to_ready[task[r].lock] = Null
                                      THEN "check" ELSE "notified"]
    /\ UNCHANGED <<world, jetstream, lock_to_ready, readers, spawn_requests>>
    /\ UNCHANGED outsideScheduler

\* l.as_mut().unwrap().notified().await: returns once the cluster state has applied
\* the sequence number the listener was created for.
Notified(r) ==
    /\ r \in DOMAIN task /\ task[r].pc = "notified"
    /\ world.seq >= lock_to_ready[task[r].lock]
    /\ task' = [task EXCEPT ![r].pc = "check"]
    /\ UNCHANGED <<world, jetstream, lock_to_ready, mutex, readers, spawn_requests>>
    /\ UNCHANGED outsideScheduler

\* The guards l and w are dropped.
DropGuards(r) ==
    /\ mutex' = [mutex EXCEPT ![task[r].lock] = 0]
    /\ readers' = readers \ {r}

\* dispatch with a lock, lines 258-265: return the backend that holds the lock, or
\* schedule a drone and spawn; a spawn that yields no sequence number panics.
CheckLock(r, drone, reply) ==
    /\ r \in DOMAIN task /\ task[r].pc = "check"
    /\ IF locked_backend(task[r].lock) # Null
       THEN /\ task' = [task EXCEPT
                          ![r].pc = "done",
                          ![r].response = fetch_backend(locked_backend(task[r].lock))]
            /\ DropGuards(r)
            /\ UNCHANGED <<spawn_requests, jetstream>>
       ELSE IF drone = NoDrone
       THEN /\ task' = [task EXCEPT ![r].pc = "panicked"]
            /\ DropGuards(r)
            /\ UNCHANGED <<spawn_requests, jetstream>>
       ELSE /\ spawn_backend(r, drone, reply)
            /\ IF SpawnValue(drone, reply)[2] # Null
               THEN /\ task' = [task EXCEPT
                                  ![r].pc = "write",
                                  ![r].st = SpawnValue(drone, reply)[2],
                                  ![r].response = SpawnValue(drone, reply)[1]]
                    /\ DropGuards(r)
               ELSE /\ task' = [task EXCEPT ![r].pc = "panicked"]
                    /\ DropGuards(r)
    /\ UNCHANGED <<world, lock_to_ready>>
    /\ UNCHANGED outsideScheduler

\* Lines 269-279: under the write guard, store the listener for the sequence number
\* of the Assignment unless the state has already passed it; then Ok(res).
StoreListener(r) ==
    /\ r \in DOMAIN task /\ task[r].pc = "write"
    /\ readers = {}
    /\ lock_to_ready' = IF world.seq < task[r].st
                        THEN [lock_to_ready EXCEPT ![task[r].lock] = task[r].st]
                        ELSE lock_to_ready
    /\ task' = [task EXCEPT ![r].pc = "done"]
    /\ UNCHANGED <<world, jetstream, mutex, readers, spawn_requests>>
    /\ UNCHANGED outsideScheduler

\* The cluster state applies the next message of the stream.
ApplyStateMessage ==
    /\ world.seq < Len(jetstream)
    /\ LET m == jetstream[world.seq + 1]
       IN world' =
            IF m.type = "Assignment"
            THEN [seq |-> world.seq + 1,
                  backends |-> [b \in DOMAIN world.backends \cup {m.backend} |->
                                  IF b = m.backend
                                  THEN [drone |-> m.drone,
                                        bearer_token |-> m.bearer_token]
                                  ELSE world.backends[b]],
                  locks |-> IF m.lock = NoLock THEN world.locks
                            ELSE [l \in DOMAIN world.locks \cup {m.lock} |->
                                    IF l = m.lock THEN m.backend ELSE world.locks[l]]]
            ELSE [seq |-> world.seq + 1,
                  backends |-> world.backends,
                  locks |-> [l \in {k \in DOMAIN world.locks :
                                      world.locks[k] # m.backend} |-> world.locks[l]]]
    /\ UNCHANGED <<task, jetstream, lock_to_ready, mutex, readers, spawn_requests>>
    /\ UNCHANGED outsideScheduler

\* The backends whose termination has been published.
TerminatedBackends ==
    {jetstream[i].backend : i \in {j \in 1..Len(jetstream) :
                                      jetstream[j].type = "Terminated"}}

\* The backends an Assignment has been published for.
AssignedBackends ==
    {jetstream[i].backend : i \in {j \in 1..Len(jetstream) :
                                      jetstream[j].type = "Assignment"}}

\* A drone publishes that a backend has terminated.
BackendTerminated(backend_id) ==
    /\ backend_id \in AssignedBackends \ TerminatedBackends
    /\ jetstream' = Append(jetstream, TerminatedMessage(backend_id))
    /\ UNCHANGED <<task, world, lock_to_ready, mutex, readers, spawn_requests>>
    /\ UNCHANGED outsideScheduler

NextScheduler ==
    \/ \E lock \in Locks \cup {NoLock} : Receive(lock)
    \/ \E r \in Requests, drone \in Drones \cup {NoDrone}, reply \in SpawnReplies :
          DispatchNoLock(r, drone, reply)
    \/ \E r \in Requests : CheckEntry(r)
    \/ \E r \in Requests : InsertEntry(r)
    \/ \E r \in Requests : ReadGuard(r)
    \/ \E r \in Requests : LockMutex(r)
    \/ \E r \in Requests : Notified(r)
    \/ \E r \in Requests, drone \in Drones \cup {NoDrone}, reply \in SpawnReplies :
          CheckLock(r, drone, reply)
    \/ \E r \in Requests : StoreListener(r)
    \/ ApplyStateMessage
    \/ \E backend_id \in 1..MaxRequests : BackendTerminated(backend_id)

\* tokio polls every spawned task that can make progress, and the cluster state
\* keeps consuming the stream.
TaskStep(r) ==
    \/ \E drone \in Drones \cup {NoDrone}, reply \in SpawnReplies :
          DispatchNoLock(r, drone, reply) \/ CheckLock(r, drone, reply)
    \/ CheckEntry(r) \/ InsertEntry(r) \/ ReadGuard(r) \/ LockMutex(r)
    \/ Notified(r) \/ StoreListener(r)

FairScheduler ==
    /\ \A r \in Requests : WF_vars(TaskStep(r))
    /\ WF_vars(ApplyStateMessage)

\* =================================================================== proxy
MaxHttp == 2

\* let (route_info_request_sender, route_info_request_receiver) = mpsc::channel(1)
ChannelCapacity == 1

HttpRequests == 1..MaxHttp
Tokens == {BearerTokenNames[1]}
NoToken == "none"
NoSubdomain == "none"
Subdomains == {"mysubdomain"}
RedirectUrl == "https://plane.test/"
NoLocation == "none"

\* Static tokens, and what follows the token in a request path, as path segments:
\* "/" and "/foo/bar".
StaticTokens == {"s." \o t : t \in Tokens}
Paths == {<<"">>, <<"foo", "bar">>}
NoUpstream == <<>>

\* RouteInfoResponse.route_info: None, or Some(RouteInfo) with the backend's address
\* (one the proxy can connect to, or not) and the subdomain it requires.
NoRouteInfo == [found |-> FALSE, address |-> "none", subdomain |-> NoSubdomain]
RouteInfo(addr, subdomain) ==
    [found |-> TRUE, address |-> addr, subdomain |-> subdomain]
RouteInfos ==
    {NoRouteInfo} \cup {RouteInfo(a, sd) : a \in {"reachable", "unreachable"},
                                           sd \in Subdomains \cup {NoSubdomain}}

\* An HTTP response, and a request that still waits for its route.
Response(status, location) == [status |-> status, location |-> location]
Waiting == Response(0, NoLocation)

\* The proxy before the first request.
InitProxy ==
    /\ root_redirect \in {"none", RedirectUrl}
    /\ route_map = <<>>
    /\ channel = <<>>
    /\ inbox = {}
    /\ sent = {}
    /\ http = <<>>

\* The proxy is not part of the other specifications.
ProxyIdle ==
    /\ root_redirect = "none"
    /\ route_map = <<>>
    /\ channel = <<>>
    /\ inbox = {}
    /\ sent = {}
    /\ http = <<>>

\* Mutant of RootResponse: the proxy redirects whether or not a URL is configured.
RootResponseAlwaysRedirects(redirect) == Response(301, redirect)

\* A request without a token prefix: 301 to the configured URL, or 400.
RootResponse(redirect) ==
    IF redirect # "none" THEN Response(301, redirect) ELSE Response(400, NoLocation)

\* The host lacks the subdomain the backend requires.
SubdomainMissing(host, info) ==
    info.subdomain # NoSubdomain /\ host # info.subdomain

\* The routing decision for a request with a token, once its route is known:
\* 410 without route info, 403 on a missing subdomain, 502 when the backend cannot
\* be connected to, and otherwise the backend's own response.
RouteResponse(host, info) ==
    IF ~info.found THEN Response(410, NoLocation)
    ELSE IF SubdomainMissing(host, info) THEN Response(403, NoLocation)
    ELSE IF info.address = "unreachable" THEN Response(502, NoLocation)
    ELSE Response(200, NoLocation)

\* Mutant of Forwards: the proxy connects to the backend whatever the host.
ForwardsAnyHost(host, info) == info.found /\ info.address = "reachable"

\* The request is handed to the backend: the route is known, the host carries the
\* subdomain the backend requires and the backend's address accepts the connection.
Forwards(host, info) ==
    info.found /\ ~SubdomainMissing(host, info) /\ info.address = "reachable"

\* The path of the upstream request: the request's path with the token segment
\* stripped, unless the token is static.
UpstreamPath(uri) == IF is_static(Head(uri)) THEN uri ELSE Tail(uri)

\* What the backend receives for a request whose route is known: nothing, or the
\* upstream path.
Upstream(host, uri, info) ==
    IF Forwards(host, info) THEN UpstreamPath(uri) ELSE NoUpstream

\* Mutant of IssuesRequest: a lookup that finds the entry pending asks again.
IssuesRequestWhilePending(bearer) ==
    bearer \notin DOMAIN route_map \/ route_map[bearer].state = "pending"

\* A lookup issues a RouteInfoRequest only on a miss.
IssuesRequest(bearer) == bearer \notin DOMAIN route_map

\* The sender set by set_sender: try_send(m) into the channel.
Send(r, bearer) ==
    /\ channel' = Append(channel, [token |-> bearer])
    /\ sent' = sent \cup {[token |-> bearer, by |-> r]}

\* An HTTP request arrives. Without a token prefix it is answered at once; with a
\* token the route map is looked up: a miss inserts a pending entry and issues a
\* RouteInfoRequest, a pending entry gets one more waiter, a resolved entry routes.
\* The request's path is /<first>/<path>; the token is its first segment.
HttpRequest(first, host, path) ==
    /\ Cardinality(DOMAIN http) < MaxHttp
    /\ LET r == Cardinality(DOMAIN http) + 1
           uri == IF first = NoToken THEN <<"">> ELSE <<first>> \o path
           bearer == IF Head(uri) = "" THEN NoToken ELSE Head(uri)
           req(response, info, upstream) ==
               [token |-> bearer, host |-> host, uri |-> uri,
                response |-> response, info |-> info, upstream |-> upstream]
       IN IF bearer = NoToken
          THEN /\ http' = http @@
                     (r :> req(RootResponse(root_redirect), NoRouteInfo, NoUpstream))
               /\ UNCHANGED <<route_map, channel, sent>>
          ELSE IF bearer \in DOMAIN route_map /\ route_map[bearer].state = "resolved"
          THEN /\ http' = http @@
                     (r :> req(RouteResponse(host, route_map[bearer].info),
                               route_map[bearer].info,
                               Upstream(host, uri, route_map[bearer].info)))
               /\ UNCHANGED <<route_map, channel, sent>>
          ELSE /\ http' = http @@ (r :> req(Waiting, NoRouteInfo, NoUpstream))
               /\ route_map' =
                    [t \in DOMAIN route_map \cup {bearer} |->
                       IF t = bearer
                       THEN [state |-> "pending", info |-> NoRouteInfo,
                             waiters |-> (IF bearer \in DOMAIN route_map
                                          THEN route_map[bearer].waiters ELSE {})
                                         \cup {r}]
                       ELSE route_map[t]]
               /\ IF IssuesRequest(bearer)
                  THEN Send(r, bearer)
                  ELSE UNCHANGED <<channel, sent>>
    /\ UNCHANGED <<root_redirect, inbox>>
    /\ UNCHANGED outsideProxy

\* recv_route_info_request: the controller side takes the next request.
RecvRouteInfoRequest ==
    /\ channel # <<>>
    /\ inbox' = inbox \cup {Head(channel).token}
    /\ channel' = Tail(channel)
    /\ UNCHANGED <<root_redirect, route_map, sent, http>>
    /\ UNCHANGED outsideProxy

\* send_route_info_response -> route_map.receive(response): the entry becomes
\* resolved and every waiter completes with the response's route info.
ReceiveRouteInfoResponse(bearer, info) ==
    /\ bearer \in inbox
    /\ inbox' = inbox \ {bearer}
    /\ IF bearer \in DOMAIN route_map /\ route_map[bearer].state = "pending"
       THEN /\ route_map' = [route_map EXCEPT ![bearer] =
                               [state |-> "resolved", info |-> info, waiters |-> {}]]
            /\ http' = [r \in DOMAIN http |->
                          IF r \in route_map[bearer].waiters
                          THEN [http[r] EXCEPT
                                  !.response = RouteResponse(http[r].host, info),
                                  !.info = info,
                                  !.upstream = Upstream(http[r].host, http[r].uri,
                                                        info)]
                          ELSE http[r]]
       ELSE UNCHANGED <<route_map, http>>
    /\ UNCHANGED <<root_redirect, channel, sent>>
    /\ UNCHANGED outsideProxy

\* A resolved entry is removed: its TTL ran out, or the controller pushed
\* BackendRemoved.
RemoveEntry(bearer) ==
    /\ bearer \in DOMAIN route_map /\ route_map[bearer].state = "resolved"
    /\ route_map' = [t \in DOMAIN route_map \ {bearer} |-> route_map[t]]
    /\ UNCHANGED <<root_redirect, channel, inbox, sent, http>>
    /\ UNCHANGED outsideProxy

NextProxy ==
    \/ \E bearer \in Tokens \cup {NoToken}, host \in Subdomains \cup {NoSubdomain},
          path \in Paths :
          HttpRequest(bearer, host, path)
    \/ RecvRouteInfoRequest
    \/ \E bearer \in Tokens, info \in RouteInfos :
          ReceiveRouteInfoResponse(bearer, info)
    \/ \E bearer \in Tokens : RemoveEntry(bearer)

\* The proxy serving static and non-static tokens. The client of the mock proxy
\* asks for a token the route map does not know only while the sender's channel
\* has room: try_send(m).expect(..) on a full channel ends the test.
NextForward ==
    \/ \E bearer \in Tokens \cup StaticTokens \cup {NoToken},
          host \in Subdomains \cup {NoSubdomain}, path \in Paths :
          /\ IssuesRequest(bearer) => Len(channel) < ChannelCapacity
          /\ HttpRequest(bearer, host, path)
    \/ RecvRouteInfoRequest
    \/ \E bearer \in Tokens \cup StaticTokens, info \in RouteInfos :
          ReceiveRouteInfoResponse(bearer, info)
    \/ \E bearer \in Tokens \cup StaticTokens : RemoveEntry(bearer)
\* ============================================================= key manager
MaxKeyClock == 4
MaxRenewals == 1
MaxRegistrations == 2

KeyConfigs == {"k1", "k2"}

\* The watch channels register_key has created, in the order of the calls; each has
\* one Sender, one Receiver and the task that was spawned on the Receiver.
Channels == 1..MaxRegistrations

\* AcquiredKey with its KeyDeadlines.
AcquiredKey(key, renew_at, fencing) ==
    [key |-> key, renew_at |-> renew_at, soft_terminate_at |-> renew_at + 1,
     hard_terminate_at |-> renew_at + 2, token |-> fencing]

\* The channels whose Sender KeyManager.senders holds.
Held == {c \in DOMAIN watch : ~watch[c].closed}

\* The keys of KeyManager.senders.
senders == {watch[c].key : c \in Held}

\* self.senders.get_mut(&key)
SenderOf(k) == CHOOSE c \in Held : watch[c].key = k

\* KeyManager::new
InitKeyManager ==
    /\ key_clock = 0
    /\ watch = <<>>
    /\ key_tasks = <<>>
    /\ key_outbox = {}
    /\ key_signals = {}
    /\ key_warned = {}

KeyClockTick ==
    /\ key_clock < MaxKeyClock
    /\ key_clock' = key_clock + 1
    /\ UNCHANGED <<watch, key_tasks, key_outbox, key_signals, key_warned>>
    /\ UNCHANGED outsideKeyManager

\* Mutant of Replaced: the Sender an earlier registration stored is kept alive.
ReplacedNever(c, k) == FALSE

\* HashMap::insert returns the value the map held under the key, and the Sender
\* returned is dropped.
Replaced(c, k) == watch[c].key = k

\* register_key: a watch channel holding the key, a task running renew_key_loop
\* on its receiver, and the sender stored under the key.
RegisterKey(k, renew_at) ==
    /\ Cardinality(DOMAIN watch) < MaxRegistrations
    /\ LET key == AcquiredKey(k, renew_at, 1)
           new == Cardinality(DOMAIN watch) + 1
       IN /\ watch' = [c \in DOMAIN watch \cup {new} |->
                         IF c = new
                         THEN [key |-> k, value |-> key, version |-> 0,
                               closed |-> FALSE]
                         ELSE IF Replaced(c, k)
                              THEN [watch[c] EXCEPT !.closed = TRUE]
                              ELSE watch[c]]
          /\ key_tasks' = [c \in DOMAIN key_tasks \cup {new} |->
                             IF c = new THEN [pc |-> "changed", seen |-> 0, key |-> key]
                             ELSE key_tasks[c]]
    /\ UNCHANGED <<key_clock, key_outbox, key_signals, key_warned>>
    /\ UNCHANGED outsideKeyManager

\* unregister_key: the sender is removed from the map and dropped.
UnregisterKey(k) ==
    /\ k \in senders
    /\ watch' = [watch EXCEPT ![SenderOf(k)].closed = TRUE]
    /\ UNCHANGED <<key_clock, key_tasks, key_outbox, key_signals, key_warned>>
    /\ UNCHANGED outsideKeyManager

\* receive_response: the response is published on the key's watch channel; a
\* response for a key without a sender is logged.
ReceiveResponse(k, renew_at) ==
    /\ IF k \in senders
       THEN /\ watch[SenderOf(k)].version < MaxRenewals
            /\ watch' = [watch EXCEPT
                           ![SenderOf(k)].value = AcquiredKey(k, renew_at, @.token),
                           ![SenderOf(k)].version = @ + 1]
            /\ UNCHANGED key_warned
       ELSE /\ key_warned' = key_warned \cup {k}
            /\ UNCHANGED watch
    /\ UNCHANGED <<key_clock, key_tasks, key_outbox, key_signals>>
    /\ UNCHANGED outsideKeyManager

\* receiver.changed(): a value the receiver has not seen. The value the channel
\* was created with counts as seen.
Changed(c) == key_tasks[c].seen # watch[c].version

\* A task that has returned, and the channel whose sender and receiver are both
\* dropped: their contents are gone.
Ended(k) == [pc |-> "done", seen |-> 0, key |-> AcquiredKey(k, 0, 0)]
Dropped(k) == [key |-> k, value |-> AcquiredKey(k, 0, 0), version |-> 0,
               closed |-> TRUE]

\* renew_key_loop: receiver.changed().await, then receiver.borrow().clone(); the
\* loop ends when the sender was dropped and no unseen value is left, and the task
\* returns, dropping the receiver.
LoopChanged(c) ==
    /\ c \in DOMAIN key_tasks /\ key_tasks[c].pc = "changed"
    /\ IF Changed(c)
       THEN /\ key_tasks' = [key_tasks EXCEPT ![c].pc = "sleep",
                                              ![c].seen = watch[c].version,
                                              ![c].key = watch[c].value]
            /\ UNCHANGED watch
       ELSE /\ watch[c].closed
            /\ key_tasks' = [key_tasks EXCEPT ![c] = Ended(watch[c].key)]
            /\ watch' = [watch EXCEPT ![c] = Dropped(watch[c].key)]
    /\ UNCHANGED <<key_clock, key_outbox, key_signals, key_warned>>
    /\ UNCHANGED outsideKeyManager

\* renew_key_loop: sleep until renew_at when it lies in the future, then build the
\* RenewKeyRequest. The request is dropped at the end of the loop body: nothing
\* hands it to the socket sender, and nothing signals the backend manager.
LoopRenew(c) ==
    /\ c \in DOMAIN key_tasks /\ key_tasks[c].pc = "sleep"
    /\ key_clock >= key_tasks[c].key.renew_at
    /\ key_tasks' = [key_tasks EXCEPT ![c].pc = "changed"]
    /\ UNCHANGED <<key_clock, watch, key_outbox, key_signals, key_warned>>
    /\ UNCHANGED outsideKeyManager

RenewTimes == 1..(MaxKeyClock - 2)

\* The renewal tasks of key k that have not ended.
LiveTasks(k) ==
    {c \in DOMAIN key_tasks : watch[c].key = k /\ key_tasks[c].pc # "done"}

\* The key manager of a drone that registers a key when it acquires it and
\* registers it again only after it has released it and the key's task has ended;
\* the controller answers for registered keys.
NextKeyManager ==
    \/ KeyClockTick
    \/ \E k \in KeyConfigs, renew_at \in RenewTimes :
          LiveTasks(k) = {} /\ RegisterKey(k, renew_at)
    \/ \E k \in KeyConfigs : UnregisterKey(k)
    \/ \E k \in KeyConfigs, renew_at \in RenewTimes :
          k \in senders /\ ReceiveResponse(k, renew_at)
    \/ \E c \in Channels : LoopChanged(c)
    \/ \E c \in Channels : LoopRenew(c)

\* The tasks and the clock keep running.
FairKeyManager ==
    /\ WF_vars(KeyClockTick)
    /\ \A c \in Channels : WF_vars(LoopChanged(c)) /\ WF_vars(LoopRenew(c))

\* A renew_at that has passed: duration_since fails and the task does not sleep.
Overdue == 0

\* The key manager under any order of register_key, unregister_key and
\* receive_response calls, for keys whose renew_at has passed.
NextKeyTasks ==
    \/ \E k \in KeyConfigs : RegisterKey(k, Overdue)
    \/ \E k \in KeyConfigs : UnregisterKey(k)
    \/ \E k \in KeyConfigs : ReceiveResponse(k, Overdue)
    \/ \E c \in Channels : LoopChanged(c)
    \/ \E c \in Channels : LoopRenew(c)

\* The runtime keeps polling the tasks that can take a step; each task takes
\* finitely many steps between two calls of the manager.
FairKeyTasks == WF_vars(\E c \in Channels : LoopChanged(c) \/ LoopRenew(c))

\* ================================================== controller: fencing keys
MaxAcquisitions == 3

NoRenewal == [key |-> "none", presented |-> 0, stored |-> 0, ok |-> FALSE]

\* No key is held.
InitKeyStore ==
    /\ key_rows = <<>>
    /\ fencing_seq = [k \in KeyConfigs |-> 0]
    /\ acquired = {}
    /\ renew_result = NoRenewal

\* Mutant of NextFencingToken: a reacquired key gets the token it had before.
NextFencingTokenReused(k) == IF fencing_seq[k] = 0 THEN 1 ELSE fencing_seq[k]

\* The token of a new acquisition: "incremented when the key is released and then
\* acquired".
NextFencingToken(k) == fencing_seq[k] + 1

\* A key that nobody holds is acquired: the acquisition is stored and the
\* AcquiredKey goes to the backend that is spawned for it.
AcquireKey(k) ==
    /\ k \notin DOMAIN key_rows
    /\ fencing_seq[k] < MaxAcquisitions
    /\ LET fencing == NextFencingToken(k)
       IN /\ key_rows' = [j \in DOMAIN key_rows \cup {k} |->
                            IF j = k THEN [token |-> fencing, renewals |-> 0]
                            ELSE key_rows[j]]
          /\ fencing_seq' = [fencing_seq EXCEPT ![k] = fencing]
          /\ acquired' = acquired \cup
                            {[key |-> k, token |-> fencing,
                              id |-> Cardinality(acquired) + 1]}
    /\ UNCHANGED renew_result
    /\ UNCHANGED outsideKeyStore

\* The key is released: its stored acquisition is deleted.
ReleaseKey(k) ==
    /\ k \in DOMAIN key_rows
    /\ key_rows' = [j \in DOMAIN key_rows \ {k} |-> key_rows[j]]
    /\ UNCHANGED <<fencing_seq, acquired, renew_result>>
    /\ UNCHANGED outsideKeyStore

\* The renewal handler: the holder of acquisition a asks for new deadlines. The
\* renewal succeeds iff the key is held under the token a carries.
RenewKey(a) ==
    /\ LET k == a.key
           held == k \in DOMAIN key_rows
           stored == IF held THEN key_rows[k].token ELSE 0
           ok == held /\ stored = a.token
       IN /\ ok => key_rows[k].renewals < MaxRenewals
          /\ key_rows' = IF ok THEN [key_rows EXCEPT ![k].renewals = @ + 1]
                         ELSE key_rows
          /\ renew_result' = [key |-> k, presented |-> a.token, stored |-> stored,
                              ok |-> ok]
    /\ UNCHANGED <<fencing_seq, acquired>>
    /\ UNCHANGED outsideKeyStore

NextKeyStore ==
    \/ \E k \in KeyConfigs : AcquireKey(k)
    \/ \E k \in KeyConfigs : ReleaseKey(k)
    \/ \E a \in acquired : RenewKey(a)

\* ============================================= controller: certificate lease
MaxCertClock == 4

\* The lease lasts 60 s by default; the model's clock counts in units of 30 s.
LeaseDuration == 2

Proxies == {"p1", "p2"}
NoProxy == "none"
NoLease == [holder |-> NoProxy, expires |-> 0]
TxtValues == {"v1", "v2"}

InitCertManager ==
    /\ cert_clock = 0
    /\ cert_lease = NoLease
    /\ last_granted = NoProxy
    /\ txt_record = "none"
    /\ grants = <<>>
    /\ cert_reply = [proxy |-> NoProxy, request |-> "none", accepted |-> FALSE]

CertClockTick ==
    /\ cert_clock < MaxCertClock
    /\ cert_clock' = cert_clock + 1
    /\ UNCHANGED <<cert_lease, last_granted, txt_record, grants, cert_reply>>
    /\ UNCHANGED outsideCertManager

\* Mutant of LeaseFree: a lease request is granted whatever lease is held.
LeaseFreeAlways == TRUE

\* No lease is held, or the current lease has expired.
LeaseFree == cert_lease.holder = NoProxy \/ cert_lease.expires <= cert_clock

\* CertManagerRequest::CertLeaseRequest -> CertLeaseResponse { accepted }
CertLeaseRequest(proxy) ==
    /\ IF LeaseFree
       THEN /\ cert_lease' = [holder |-> proxy, expires |-> cert_clock + LeaseDuration]
            /\ last_granted' = proxy
            /\ grants' = [q \in DOMAIN grants \cup {proxy} |->
                             IF q = proxy THEN cert_clock + LeaseDuration
                             ELSE grants[q]]
       ELSE UNCHANGED <<cert_lease, last_granted, grants>>
    /\ cert_reply' = [proxy |-> proxy, request |-> "CertLeaseRequest",
                      accepted |-> LeaseFree]
    /\ UNCHANGED <<cert_clock, txt_record>>
    /\ UNCHANGED outsideCertManager

\* CertManagerRequest::SetTxtRecord -> SetTxtRecordResponse { accepted }: "fails
\* if another proxy has more recently been granted the lease".
SetTxtRecord(proxy, txt_value) ==
    /\ proxy \in DOMAIN grants
    /\ LET accepted == last_granted = proxy
       IN /\ txt_record' = IF accepted THEN txt_value ELSE txt_record
          /\ cert_reply' = [proxy |-> proxy, request |-> "SetTxtRecord",
                            accepted |-> accepted]
    /\ UNCHANGED <<cert_clock, cert_lease, last_granted, grants>>
    /\ UNCHANGED outsideCertManager

\* CertManagerRequest::ReleaseCertLease, sent by a proxy on completion of its
\* order: the lease it holds is given up "so that another proxy can request it
\* immediately".
ReleaseCertLease(proxy) ==
    /\ proxy \in DOMAIN grants
    /\ cert_lease' = IF cert_lease.holder = proxy THEN NoLease ELSE cert_lease
    /\ grants' = [q \in DOMAIN grants \ {proxy} |-> grants[q]]
    /\ cert_reply' = [proxy |-> proxy, request |-> "ReleaseCertLease",
                      accepted |-> TRUE]
    /\ UNCHANGED <<cert_clock, last_granted, txt_record>>
    /\ UNCHANGED outsideCertManager

NextCertManager ==
    \/ CertClockTick
    \/ \E proxy \in Proxies : CertLeaseRequest(proxy)
    \/ \E proxy \in Proxies, txt_value \in TxtValues : SetTxtRecord(proxy, txt_value)
    \/ \E proxy \in Proxies : ReleaseCertLease(proxy)

\* ============================================================= HTTP server
MaxSrvClock == 4
MaxSrvRequests == 2

\* The server drains in-flight requests for 30 s; the model's clock counts in
\* units of 15 s. A server without a limit waits for as long as it takes.
DrainLimit == 2
NoLimit == -1

\* How long a handler takes.
Works == 1..(DrainLimit + 1)

NoDrain == [started |-> 0, limit |-> NoLimit]

\* The server is bound and serving.
InitServer ==
    /\ srv_clock = 0
    /\ srv_phase = "serving"
    /\ drain = NoDrain
    /\ srv_requests = <<>>

InFlight == {r \in DOMAIN srv_requests : srv_requests[r].status = "inflight"}

\* Mutant of Accepts: connections are accepted until the server has stopped.
AcceptsWhileDraining == srv_phase # "stopped"

\* The listener accepts connections until shutdown begins.
Accepts == srv_phase = "serving"

\* A client attempts a request whose handler takes work units of time.
SrvRequest(work) ==
    /\ Cardinality(DOMAIN srv_requests) < MaxSrvRequests
    /\ LET r == Cardinality(DOMAIN srv_requests) + 1
       IN srv_requests' = srv_requests @@
             (r :> [phase |-> srv_phase,
                    status |-> IF Accepts THEN "inflight" ELSE "refused",
                    work |-> IF Accepts THEN work ELSE 0])
    /\ UNCHANGED <<srv_clock, srv_phase, drain>>
    /\ UNCHANGED outsideServer

\* The drain limit has been reached with requests still in flight.
DrainExpired ==
    /\ srv_phase = "draining"
    /\ drain.limit # NoLimit
    /\ srv_clock - drain.started >= drain.limit

\* Time passes: every handler in flight gets one unit closer to its response. The
\* drain timer fires before time moves past the limit.
SrvTick ==
    /\ srv_clock < MaxSrvClock
    /\ ~(DrainExpired /\ InFlight # {})
    /\ srv_clock' = srv_clock + 1
    /\ srv_requests' =
          [r \in DOMAIN srv_requests |->
             IF r \in InFlight
             THEN [srv_requests[r] EXCEPT
                     !.work = @ - 1,
                     !.status = IF srv_requests[r].work = 1 THEN "ok" ELSE "inflight"]
             ELSE srv_requests[r]]
    /\ UNCHANGED <<srv_phase, drain>>
    /\ UNCHANGED outsideServer

\* Graceful shutdown begins: graceful_terminate_sender.send(()) in the controller
\* (no limit), graceful_shutdown() / shutdown_signal.shutdown() in the proxy.
GracefulShutdown(limit) ==
    /\ srv_phase = "serving"
    /\ srv_phase' = "draining"
    /\ drain' = [started |-> srv_clock, limit |-> limit]
    /\ UNCHANGED <<srv_clock, srv_requests>>
    /\ UNCHANGED outsideServer

\* The last in-flight request has finished: the server task ends and the
\* shutdown call returns (server_handle.await, http_handle.await).
ShutdownReturns ==
    /\ srv_phase = "draining"
    /\ InFlight = {}
    /\ srv_phase' = "stopped"
    /\ UNCHANGED <<srv_clock, drain, srv_requests>>
    /\ UNCHANGED outsideServer

\* The drain limit has elapsed: what is still in flight is aborted and the
\* shutdown call returns.
DrainAbort ==
    /\ DrainExpired
    /\ InFlight # {}
    /\ srv_requests' = [r \in DOMAIN srv_requests |->
                          IF r \in InFlight
                          THEN [srv_requests[r] EXCEPT !.status = "aborted"]
                          ELSE srv_requests[r]]
    /\ srv_phase' = "stopped"
    /\ UNCHANGED <<srv_clock, drain>>
    /\ UNCHANGED outsideServer

NextServer ==
    \/ \E work \in Works : SrvRequest(work)
    \/ SrvTick
    \/ \E limit \in {NoLimit, DrainLimit} : GracefulShutdown(limit)
    \/ ShutdownReturns
    \/ DrainAbort

\* ======================================================= typed unix socket
MaxLines == 3

\* What a client can put on a line: a message with an id, a message without one,
\* text that is not JSON, JSON of another type, and bytes that are not UTF-8.
LineKinds == {"request", "event", "garbage", "wrongtype", "binary"}
Line(kind, n) == [kind |-> kind, n |-> n]

\* A connection has been accepted; nobody has subscribed yet.
InitSocket ==
    /\ conn = "open"
    /\ wire = <<>>
    /\ sent_lines = <<>>
    /\ recv_log = <<>>
    /\ request_rx = <<>>
    /\ event_rx = <<>>
    /\ subscribed = {}

\* subscribe_requests / subscribe_events
Subscribe(ch) ==
    /\ ch \notin subscribed
    /\ subscribed' = subscribed \cup {ch}
    /\ UNCHANGED <<conn, wire, sent_lines, recv_log, request_rx, event_rx>>
    /\ UNCHANGED outsideSocket

\* The client writes a line.
ClientWrite(kind) ==
    /\ conn = "open"
    /\ Len(sent_lines) < MaxLines
    /\ LET line == Line(kind, Len(sent_lines) + 1)
       IN /\ wire' = Append(wire, line)
          /\ sent_lines' = Append(sent_lines, line)
    /\ UNCHANGED <<conn, recv_log, request_rx, event_rx, subscribed>>
    /\ UNCHANGED outsideSocket

\* The client closes the connection: next_line returns Ok(None) once the lines
\* written before have been read.
ClientClose ==
    /\ conn = "open"
    /\ wire = <<>>
    /\ conn' = "eof"
    /\ UNCHANGED <<wire, sent_lines, recv_log, request_rx, event_rx, subscribed>>
    /\ UNCHANGED outsideSocket

\* lines.next_line(): Err for a line that is not UTF-8.
next_line(line) == IF line.kind = "binary" THEN "Err" ELSE "Ok"

\* serde_json::from_str::<WrappedMessage<MessageToServer>>(&line)
from_str(line) ==
    CASE line.kind = "request" -> [ok |-> TRUE, id |-> line.n, message |-> line.n]
      [] line.kind = "event" -> [ok |-> TRUE, id |-> 0, message |-> line.n]
      [] OTHER -> [ok |-> FALSE, id |-> 0, message |-> 0]

\* recv_task: one turn of the loop.
RecvLine ==
    /\ conn = "open"
    /\ wire # <<>>
    /\ LET line == Head(wire)
           msg == from_str(line)
           log(outcome) == Append(recv_log, [line |-> line, outcome |-> outcome])
       IN /\ wire' = Tail(wire)
          /\ IF next_line(line) = "Err"
             THEN /\ conn' = "read-error"
                  /\ recv_log' = log("read-error")
                  /\ UNCHANGED <<request_rx, event_rx>>
             ELSE IF ~msg.ok
             THEN /\ recv_log' = log("dropped")
                  /\ UNCHANGED <<conn, request_rx, event_rx>>
             ELSE IF msg.id # 0
             THEN /\ IF "request" \in subscribed
                     THEN /\ request_rx' = Append(request_rx, msg)
                          /\ recv_log' = log("request")
                     ELSE /\ recv_log' = log("no-receiver")
                          /\ UNCHANGED request_rx
                  /\ UNCHANGED <<conn, event_rx>>
             ELSE /\ IF "event" \in subscribed
                     THEN /\ event_rx' = Append(event_rx, msg.message)
                          /\ recv_log' = log("event")
                     ELSE /\ recv_log' = log("no-receiver")
                          /\ UNCHANGED event_rx
                  /\ UNCHANGED <<conn, request_rx>>
    /\ UNCHANGED <<sent_lines, subscribed>>
    /\ UNCHANGED outsideSocket

NextSocket ==
    \/ \E ch \in {"request", "event"} : Subscribe(ch)
    \/ \E kind \in LineKinds : ClientWrite(kind)
    \/ ClientClose
    \/ RecvLine

\* ================================================= executor: backends map
MaxActions == 2

Actions == 1..MaxActions
Listener == 0
Free == -2

\* The executor with a manager in the map for every backend it has spawned.
InitExecutor ==
    /\ ex_backends = DroneBackends
    /\ ex_guards = {}
    /\ ex_thread = Free
    /\ ex_actions = <<>>
    /\ ex_listener = [pc |-> "next", backend |-> 0]
    /\ ex_events = {}
    /\ ex_calls = {}

\* apply_action(backend_id, BackendAction::Terminate { .. }) is called.
StartTerminate(b) ==
    /\ Cardinality(DOMAIN ex_actions) < MaxActions
    /\ ex_actions' = ex_actions @@
          (Cardinality(DOMAIN ex_actions) + 1 :> [pc |-> "get", backend |-> b])
    /\ UNCHANGED <<ex_backends, ex_guards, ex_thread, ex_listener, ex_events,
                   ex_calls>>
    /\ UNCHANGED outsideExecutor

\* self.backends.get(backend_id): a Ref into the map, or the early return.
TerminateGet(a) ==
    /\ a \in DOMAIN ex_actions /\ ex_actions[a].pc = "get"
    /\ ex_thread = Free
    /\ IF ex_actions[a].backend \in ex_backends
       THEN /\ ex_guards' = ex_guards \cup {a}
            /\ ex_actions' = [ex_actions EXCEPT ![a].pc = "clone"]
            /\ ex_thread' = a
       ELSE /\ ex_actions' = [ex_actions EXCEPT ![a].pc = "done"]
            /\ UNCHANGED <<ex_guards, ex_thread>>
    /\ UNCHANGED <<ex_backends, ex_listener, ex_events, ex_calls>>
    /\ UNCHANGED outsideExecutor

\* Mutant of GuardsAfterClone: the Ref lives until apply_action returns.
GuardsAfterCloneKept(a) == ex_guards

\* manager.clone() is the value of the block; the Ref is dropped at the end of the
\* block.
GuardsAfterClone(a) == ex_guards \ {a}

\* The block ends and manager.terminate(kind, reason) is invoked; the call awaits
\* the manager, which frees the worker thread.
TerminateInvoke(a) ==
    /\ a \in DOMAIN ex_actions /\ ex_actions[a].pc = "clone"
    /\ ex_thread = a
    /\ ex_guards' = GuardsAfterClone(a)
    /\ ex_calls' = ex_calls \cup {[backend |-> ex_actions[a].backend,
                                    call |-> "terminate"]}
    /\ ex_actions' = [ex_actions EXCEPT ![a].pc = "terminate"]
    /\ ex_thread' = Free
    /\ UNCHANGED <<ex_backends, ex_listener, ex_events>>
    /\ UNCHANGED outsideExecutor

\* manager.terminate(..).await returns and apply_action with it.
TerminateReturns(a) ==
    /\ a \in DOMAIN ex_actions /\ ex_actions[a].pc = "terminate"
    /\ ex_thread = Free
    /\ ex_actions' = [ex_actions EXCEPT ![a].pc = "done"]
    /\ ex_guards' = ex_guards \ {a}
    /\ UNCHANGED <<ex_backends, ex_thread, ex_listener, ex_events, ex_calls>>
    /\ UNCHANGED outsideExecutor

\* The runtime reports that the container of backend b has exited.
RuntimeExit(b) ==
    /\ b \in ex_backends
    /\ b \notin ex_events
    /\ ex_events' = ex_events \cup {b}
    /\ UNCHANGED <<ex_backends, ex_guards, ex_thread, ex_actions, ex_listener,
                   ex_calls>>
    /\ UNCHANGED outsideExecutor

\* events.next().await yields an event.
ListenerNext(b) ==
    /\ ex_listener.pc = "next"
    /\ b \in ex_events
    /\ ex_thread = Free
    /\ ex_events' = ex_events \ {b}
    /\ ex_listener' = [pc |-> "remove", backend |-> b]
    /\ ex_thread' = Listener
    /\ UNCHANGED <<ex_backends, ex_guards, ex_actions, ex_calls>>
    /\ UNCHANGED outsideExecutor

\* backends.remove(&event.backend_id) waits, on the worker thread, until no Ref
\* into the map is held; then manager.mark_terminated(exit_code).
ListenerRemove ==
    /\ ex_listener.pc = "remove"
    /\ ex_thread = Listener
    /\ ex_guards = {}
    /\ LET b == ex_listener.backend
       IN /\ ex_backends' = ex_backends \ {b}
          /\ ex_calls' = IF b \in ex_backends
                         THEN ex_calls \cup {[backend |-> b, call |-> "mark_terminated"]}
                         ELSE ex_calls
    /\ ex_listener' = [pc |-> "next", backend |-> 0]
    /\ ex_thread' = Free
    /\ UNCHANGED <<ex_guards, ex_actions, ex_events>>
    /\ UNCHANGED outsideExecutor

NextExecutor ==
    \/ \E b \in DroneBackends : StartTerminate(b)
    \/ \E a \in Actions : TerminateGet(a)
    \/ \E a \in Actions : TerminateInvoke(a)
    \/ \E a \in Actions : TerminateReturns(a)
    \/ \E b \in DroneBackends : RuntimeExit(b)
    \/ \E b \in DroneBackends : ListenerNext(b)
    \/ ListenerRemove

\* ======================================== controller server (plane2/controller)
MaxHeartbeats == 2
MaxTerminates == 2

TerminateCalls == 1..MaxTerminates

\* Who sends a heartbeat query: HeartbeatSender::start, the heartbeat task, or a
\* terminate call (1, 2, ..).
Starter == -1
Looper == 0

\* db.controller().heartbeat(&controller_id, is_online): one query, sent on a
\* connection of the pool.
HeartbeatQuery(by, online) == [by |-> by, online |-> online]

\* The heartbeat query of sender by has been answered.
Answered(by) == \A q \in hb_wire : q.by # by

\* ControllerServer before run_with_listener.
InitHeartbeat ==
    /\ run_pc = "new"
    /\ heartbeat_handle = "none"
    /\ hb_wire = {}
    /\ hb_failed = {}
    /\ hb_log = <<>>
    /\ hb_sent = 0
    /\ http_server = "none"
    /\ graceful_terminate_sender = FALSE
    /\ server_handle = FALSE
    /\ signals_sent = 0
    /\ terminate_pc = <<>>

\* The database executes a heartbeat query: the controller's row takes is_online.
\* Queries sent on different connections are executed in any order.
ExecuteHeartbeat(q) ==
    /\ q \in hb_wire
    /\ hb_wire' = hb_wire \ {q}
    /\ hb_log' = Append(hb_log, q.online)
    /\ UNCHANGED <<run_pc, heartbeat_handle, hb_failed, hb_sent, http_server,
                   graceful_terminate_sender, server_handle, signals_sent,
                   terminate_pc>>
    /\ UNCHANGED outsideHeartbeat

\* The database turns a heartbeat query down: the caller gets Err.
RejectHeartbeat(q) ==
    /\ q \in hb_wire
    /\ hb_wire' = hb_wire \ {q}
    /\ hb_failed' = hb_failed \cup {q.by}
    /\ UNCHANGED <<run_pc, heartbeat_handle, hb_log, hb_sent, http_server,
                   graceful_terminate_sender, server_handle, signals_sent,
                   terminate_pc>>
    /\ UNCHANGED outsideHeartbeat

\* run_with_listener up to HeartbeatSender::start's first await: the initial
\* heartbeat is sent.
RunStart ==
    /\ run_pc = "new"
    /\ run_pc' = "first"
    /\ hb_wire' = hb_wire \cup {HeartbeatQuery(Starter, TRUE)}
    /\ UNCHANGED <<heartbeat_handle, hb_failed, hb_log, hb_sent, http_server,
                   graceful_terminate_sender, server_handle, signals_sent,
                   terminate_pc>>
    /\ UNCHANGED outsideHeartbeat

\* The initial heartbeat has returned. Err: `?` leaves start and run_with_listener.
\* Ok: the heartbeat task is spawned, then the router is built and the server task
\* is spawned, and the ControllerServer is returned.
RunServe ==
    /\ run_pc = "first"
    /\ Answered(Starter)
    /\ IF Starter \in hb_failed
       THEN /\ run_pc' = "failed"
            /\ UNCHANGED <<heartbeat_handle, http_server, graceful_terminate_sender,
                           server_handle>>
       ELSE /\ run_pc' = "running"
            /\ heartbeat_handle' = "sleep"
            /\ http_server' = "serving"
            /\ graceful_terminate_sender' = TRUE
            /\ server_handle' = TRUE
    /\ UNCHANGED <<hb_wire, hb_failed, hb_log, hb_sent, signals_sent, terminate_pc>>
    /\ UNCHANGED outsideHeartbeat

\* The heartbeat task: the sleep is over and the online heartbeat is sent.
LoopHeartbeat ==
    /\ heartbeat_handle = "sleep"
    /\ hb_sent < MaxHeartbeats
    /\ hb_wire' = hb_wire \cup {HeartbeatQuery(Looper, TRUE)}
    /\ hb_sent' = hb_sent + 1
    /\ heartbeat_handle' = "query"
    /\ UNCHANGED <<run_pc, hb_failed, hb_log, http_server, graceful_terminate_sender,
                   server_handle, signals_sent, terminate_pc>>
    /\ UNCHANGED outsideHeartbeat

\* The heartbeat task: its query has returned; Err ends the task through `?`, Ok
\* takes it back to the sleep.
LoopAnswered ==
    /\ heartbeat_handle = "query"
    /\ Answered(Looper)
    /\ heartbeat_handle' = IF Looper \in hb_failed THEN "failed" ELSE "sleep"
    /\ hb_failed' = hb_failed \ {Looper}
    /\ UNCHANGED <<run_pc, hb_wire, hb_log, hb_sent, http_server,
                   graceful_terminate_sender, server_handle, signals_sent,
                   terminate_pc>>
    /\ UNCHANGED outsideHeartbeat

\* Mutant of Abort: the query the task is awaiting is withdrawn with the task.
AbortWithdraws(queries) == {q \in queries : q.by # Looper}

\* self.handle.abort(): the task is not polled again. A query it has sent stays
\* with the database.
Abort(queries) == queries

\* ControllerServer::terminate up to the await in HeartbeatSender::terminate: the
\* heartbeat task is aborted and the offline heartbeat is sent. The calls take
\* &mut self, so a call begins when the one before it has returned.
TerminateStart(t) ==
    /\ run_pc = "running"
    /\ t = Len(terminate_pc) + 1
    /\ t \in TerminateCalls
    /\ \A u \in DOMAIN terminate_pc : terminate_pc[u] = "returned"
    /\ heartbeat_handle' = IF heartbeat_handle \in {"sleep", "query"}
                           THEN "aborted" ELSE heartbeat_handle
    /\ hb_wire' = Abort(hb_wire) \cup {HeartbeatQuery(t, FALSE)}
    /\ terminate_pc' = Append(terminate_pc, "offline")
    /\ UNCHANGED <<run_pc, hb_failed, hb_log, hb_sent, http_server,
                   graceful_terminate_sender, server_handle, signals_sent>>
    /\ UNCHANGED outsideHeartbeat

\* terminate after the offline heartbeat has returned (an Err is logged): take the
\* sender, or return when it was taken before; send the signal; on Ok take the
\* server handle and await it, on Err (the server task has ended) return.
TerminateSignal(t) ==
    /\ t \in DOMAIN terminate_pc /\ terminate_pc[t] = "offline"
    /\ Answered(t)
    /\ graceful_terminate_sender' = FALSE
    /\ IF ~graceful_terminate_sender
       THEN /\ terminate_pc' = [terminate_pc EXCEPT ![t] = "returned"]
            /\ UNCHANGED <<server_handle, signals_sent>>
       ELSE IF http_server = "serving"
       THEN /\ signals_sent' = signals_sent + 1
            /\ server_handle' = FALSE
            /\ terminate_pc' = [terminate_pc EXCEPT
                                  ![t] = IF server_handle THEN "join" ELSE "returned"]
       ELSE /\ terminate_pc' = [terminate_pc EXCEPT ![t] = "returned"]
            /\ UNCHANGED <<server_handle, signals_sent>>
    /\ UNCHANGED <<run_pc, heartbeat_handle, hb_wire, hb_failed, hb_log, hb_sent,
                   http_server>>
    /\ UNCHANGED outsideHeartbeat

\* The server task ends: after the graceful-terminate signal, or on an error of
\* its own.
ServerEnds ==
    /\ http_server = "serving"
    /\ http_server' = "stopped"
    /\ UNCHANGED <<run_pc, heartbeat_handle, hb_wire, hb_failed, hb_log, hb_sent,
                   graceful_terminate_sender, server_handle, signals_sent,
                   terminate_pc>>
    /\ UNCHANGED outsideHeartbeat

\* server_handle.await returns and so does terminate.
TerminateJoin(t) ==
    /\ t \in DOMAIN terminate_pc /\ terminate_pc[t] = "join"
    /\ http_server = "stopped"
    /\ terminate_pc' = [terminate_pc EXCEPT ![t] = "returned"]
    /\ UNCHANGED <<run_pc, heartbeat_handle, hb_wire, hb_failed, hb_log, hb_sent,
                   http_server, graceful_terminate_sender, server_handle,
                   signals_sent>>
    /\ UNCHANGED outsideHeartbeat

NextControllerServer ==
    \/ RunStart
    \/ RunServe
    \/ LoopHeartbeat
    \/ LoopAnswered
    \/ \E q \in hb_wire : ExecuteHeartbeat(q)
    \/ \E q \in hb_wire : RejectHeartbeat(q)
    \/ \E t \in TerminateCalls : TerminateStart(t)
    \/ \E t \in TerminateCalls : TerminateSignal(t)
    \/ ServerEnds
    \/ \E t \in TerminateCalls : TerminateJoin(t)

\* ============================================================ specifications
\* The controller with its database; no drone takes part.
InitIdle == InitController /\ DroneIdle /\ InitScheduler /\ ProxyIdle /\ InitKeyManager /\ InitKeyStore /\ InitCertManager /\ InitServer /\ InitSocket /\ InitExecutor /\ InitHeartbeat

\* The proxy before its first request; nothing else takes part.
InitProxied == InitController /\ DroneIdle /\ InitScheduler /\ InitProxy /\ InitKeyManager /\ InitKeyStore /\ InitCertManager /\ InitServer /\ InitSocket /\ InitExecutor /\ InitHeartbeat

\* The controller's database with token rows and static tokens; no drone takes part.
InitRouted == InitRoute /\ DroneIdle /\ InitScheduler /\ ProxyIdle /\ InitKeyManager /\ InitKeyStore /\ InitCertManager /\ InitServer /\ InitSocket /\ InitExecutor /\ InitHeartbeat

\* The controller's database with backends that connect created; no drone takes part.
InitSwept == InitSweep /\ DroneIdle /\ InitScheduler /\ ProxyIdle /\ InitKeyManager /\ InitKeyStore /\ InitCertManager /\ InitServer /\ InitSocket /\ InitExecutor /\ InitHeartbeat

\* The controller's database with one backend that connect created.
InitWaited == InitWaiting /\ DroneIdle /\ InitScheduler /\ ProxyIdle /\ InitKeyManager /\ InitKeyStore /\ InitCertManager /\ InitServer /\ InitSocket /\ InitExecutor /\ InitHeartbeat

\* A drone process from its start; the controller's database is left alone.
InitRun == InitController /\ InitDrone /\ InitScheduler /\ ProxyIdle /\ InitKeyManager /\ InitKeyStore /\ InitCertManager /\ InitServer /\ InitSocket /\ InitExecutor /\ InitHeartbeat

\* A drone process restarted over the state store of an earlier run.
InitRestart == InitController /\ InitBoot /\ InitScheduler /\ ProxyIdle /\ InitKeyManager /\ InitKeyStore /\ InitCertManager /\ InitServer /\ InitSocket /\ InitExecutor /\ InitHeartbeat

\* A drone process restarted over a state store whose events were all acked.
InitReconciled == InitController /\ InitReconcile /\ InitScheduler /\ ProxyIdle /\ InitKeyManager /\ InitKeyStore /\ InitCertManager /\ InitServer /\ InitSocket /\ InitExecutor /\ InitHeartbeat

SpecController ==
    InitIdle /\ [][NextController]_vars

SpecDrone ==
    InitRun /\ [][NextDrone]_vars

SpecBoot ==
    InitRestart /\ [][NextBoot]_vars

SpecRedeliver ==
    InitRun /\ [][NextRedeliver]_vars

SpecReconcile ==
    InitReconciled /\ [][NextNew]_vars /\ FairReconcile

SpecCleanup ==
    InitIdle /\ [][NextCleanup]_vars

SpecPass ==
    InitIdle /\ [][NextPass]_vars

SpecSweep ==
    InitSwept /\ [][NextSweep]_vars

SpecWaiting ==
    InitWaited /\ [][NextWaiting]_vars /\ FairWaiting

SpecScheduler ==
    InitIdle /\ [][NextScheduler]_vars

SpecDispatch ==
    InitIdle /\ [][NextScheduler]_vars /\ FairScheduler

SpecControllerServer ==
    InitIdle /\ [][NextControllerServer]_vars

SpecKeyManager ==
    InitIdle /\ [][NextKeyManager]_vars /\ FairKeyManager

SpecKeyTasks ==
    InitIdle /\ [][NextKeyTasks]_vars /\ FairKeyTasks

SpecCertManager ==
    InitIdle /\ [][NextCertManager]_vars

SpecServer ==
    InitIdle /\ [][NextServer]_vars

SpecSocket ==
    InitIdle /\ [][NextSocket]_vars

SpecExecutor ==
    InitIdle /\ [][NextExecutor]_vars

SpecKeyStore ==
    InitIdle /\ [][NextKeyStore]_vars

SpecRoute ==
    InitRouted /\ [][NextRoute]_vars

SpecProxy ==
    InitProxied /\ [][NextProxy]_vars

SpecForward ==
    InitProxied /\ [][NextForward]_vars

\* ================================================================ claims
\* The non-terminated backends that were created for key k.
LiveHolders(k) ==
    {b \in DOMAIN backend : backend[b].key = k /\ backend[b].last_status # "terminated"}

CallStep ==
    \/ last_call' # last_call
    \/ <<backend, backend_key, backend_state>>' # <<backend, backend_key, backend_state>>

\* C2: last_status_number never decreases, and an update_state call whose state has a
\* strictly smaller rank than the stored one (or that names a missing backend) returns
\* false and leaves backend, backend_key and backend_state unchanged and notifies no
\* subscriber.
C2_StaleUpdateIgnored ==
    [][/\ \A b \in DOMAIN backend :
             /\ b \in DOMAIN backend'
             /\ backend[b].last_status_number # Null =>
                   /\ backend'[b].last_status_number # Null
                   /\ backend'[b].last_status_number >= backend[b].last_status_number
       /\ (CallStep /\ last_call'.op = "update_state"
                    /\ last_call'.cmp \in {"smaller", "missing"}) =>
             /\ last_call'.result = "false"
             /\ UNCHANGED <<backend, backend_key, backend_state, sub>>]_vars

\* C2 witness: an update with a smaller rank was turned down while a subscriber was
\* streaming a backend that had advanced.
C2_Witness ==
    /\ last_call.op = "update_state" /\ last_call.result = "false"
    /\ last_call.cmp = "smaller"
    /\ sub.pc = "streaming" /\ Exists(sub.backend)
    /\ backend[sub.backend].last_status_number >= as_int("ready")

IsPrefix(p, q) == Len(p) <= Len(q) /\ \A i \in 1..Len(p) : p[i] = q[i]

\* The subscriber has consumed the journal rows it read and every notification so far.
Drained == sub.pc = "streaming" /\ sub.result = <<>> /\ sub.queue = <<>>

\* C3: every state written to the journal is yielded to the subscriber exactly once:
\* what was yielded is always a prefix of the backend's journal (nothing twice, nothing
\* skipped, in id order), and once the subscriber has drained its input it has yielded
\* the whole journal.
C3_StreamComplete ==
    /\ sub.pc # "idle" => IsPrefix(sub.yielded, Journal(sub.backend))
    /\ Drained => sub.yielded = Journal(sub.backend)

\* C3 witness: the stream yielded rows from the journal and from notifications and
\* dropped a notification that was also in the journal.
C3_Witness ==
    /\ Drained
    /\ sub.nread >= 1
    /\ sub.nskipped >= 1
    /\ Len(sub.yielded) > sub.nread

\* C4: the ranks observed on the status stream are non-decreasing.
C4_StreamMonotonic ==
    \A i, j \in 1..Len(sub.yielded) :
        i < j => as_int(sub.yielded[i].status) <= as_int(sub.yielded[j].status)

\* C4 witness: update_state was handed an out-of-order state (a smaller rank after a
\* termination state) while the stream had yielded that termination state from a
\* notification.
C4_Witness ==
    /\ last_call.op = "update_state" /\ last_call.cmp = "smaller"
    /\ Drained
    /\ Len(sub.yielded) >= 2
    /\ Len(sub.yielded) > sub.nread
    /\ sub.last_status \in {"terminating", "hard-terminating", "terminated"}

\* ---------------------------------------------------------- drone claims
\* The message register_listener or register_event hands over for an event row.
RowMsg(e) == Msg(e.id, e.backend_id, e.event, e.timestamp)

\* The event ids of the messages the last step handed to the listener.
RecvIds == [i \in 1..Len(recv) |-> recv[i].event_id]

\* C5: register_listener hands the unacked events to the listener in increasing
\* event-id order, whatever register_event calls came before. The code orders the
\* replay by timestamp, and the events of a backend carry the timestamp captured when
\* its Spawn action was applied, so this fails for two backends spawned at different
\* times whose events are registered in the opposite order.
C5_ReplayInEventIdOrder ==
    \A i, j \in 1..Len(recv) : i < j => recv[i].event_id < recv[j].event_id

\* C6: an event row stays in the queue until ack_event is called with its id (no
\* step of register_event, register_listener, the reconciliation at boot or a
\* backend reaching Terminated removes it), and every register_listener call hands
\* every row then in the queue to the listener.
C6_EventStaysUntilAcked ==
    [][ /\ \A e \in event : e \notin event' => AckEvent(e.id)
        /\ RegisterListener =>
             \A e \in event : \E i \in 1..Len(recv') : recv'[i] = RowMsg(e) ]_vars

\* C6 witness: the event a backend left unacked before the restart was replayed,
\* together with the two events the reconciliation registered for that backend (the
\* last one Terminated), to a listener installed after Executor::new returned.
C6_Witness ==
    /\ phase = "running"
    /\ DOMAIN tasks = {1}
    /\ store_backend[1].status = "terminated"
    /\ \E e \in event : e.id = 2 /\ e.timestamp = 0 /\ e.event.status = "ready"
    /\ RecvIds = <<2, 3, 4>>

\* C7: ack_event(e) removes exactly the row with id e and leaves every other row,
\* every backend's stored state, the id counter and the listener as they were (an id
\* that is not in the queue changes nothing); a later register_listener delivers only
\* rows that are in the queue, and a new row never takes an id used before, so an
\* acked event is not delivered again.
C7_AckRemovesExactlyOne ==
    [][ /\ \A id \in 1..next_event_id :
             AckEvent(id) =>
                /\ event' = {e \in event : e.id # id}
                /\ UNCHANGED <<store_backend, next_event_id, listener>>
        /\ RegisterListener =>
             \A i \in 1..Len(recv') : \E e \in event : recv'[i] = RowMsg(e)
        /\ \A e \in event' \ event : e.id >= next_event_id /\ e.id < next_event_id'
      ]_vars

\* C7 witness: of the three events in the queue the middle one was acked; the replay
\* that followed delivered the other two and the backend's stored state is unchanged.
C7_Witness ==
    /\ {e.id : e \in event} = {2, 4}
    /\ next_event_id = 5
    /\ RecvIds = <<2, 4>>
    /\ listener
    /\ store_backend[1] = Terminated("ready", "none", "none")

\* C8: with a listener installed, a register_event that commits hands the listener
\* exactly one message: the backend id, state and timestamp just written and the id
\* under which the new row is stored, which is larger than every id in the queue.
\* Without a listener, or when register_event fails, the listener gets nothing, and no
\* step other than register_event and register_listener invokes it.
C8_LiveDelivery ==
    [][ /\ Cardinality(event' \ event) <= 1
        /\ \A e \in event' \ event :
              /\ \A f \in event : f.id < e.id
              /\ store_backend'[e.backend_id] = e.event
              /\ recv' = IF listener THEN <<RowMsg(e)>> ELSE <<>>
        /\ (event' \ event = {} /\ ~RegisterListener) => recv' = <<>> ]_vars

\* C8 witness: the live listener was handed the first event of a backend whose row in
\* table "backend" has rowid 2 while the event is stored under id 3.
C8_Witness ==
    /\ listener
    /\ Len(recv) = 1
    /\ recv[1].backend_id = 2 /\ recv[1].event_id = 3
    /\ recv[1].state = Plain("loading")
    /\ \E e \in event : RowMsg(e) = recv[1]

\* C9: once Executor::new has returned, no backend the store listed as active is
\* still active and none of their containers is still running, whatever
\* runtime.terminate returned. The code gives up after ten failed attempts and marks
\* the backend terminated anyway, so the container can outlive the restart.
C9_RestartLeavesNothingRunning ==
    phase = "running" =>
       /\ active_backends \cap DOMAIN tasks = {}
       /\ containers \cap DOMAIN tasks = {}

\* C10: before the executor accepts a Spawn action and before the runtime-exit
\* listener or the state-store listener is started, runtime.terminate(b, hard = true)
\* has been called and Terminated with no exit code has been written (backend row and
\* event) for every backend b the store listed as active, and no backend is active.
C10_ReconciledBeforeServing ==
    (spawned \/ exit_listener \/ listener) =>
       /\ phase = "running"
       /\ active_backends = {}
       /\ \A b \in DOMAIN tasks :
             LET state == to_terminated(tasks[b].state, "none")
             IN /\ b \in terminate_calls
                /\ store_backend[b] = state
                /\ \E e \in event : e.backend_id = b /\ e.event = state

\* C10 witness: two backends were reconciled, then a Spawn action was accepted and
\* the state-store listener installed, or one was reconciled and a Spawn accepted.
C10_Witness ==
    /\ exit_listener /\ listener
    /\ \/ Cardinality(DOMAIN tasks) = 2
       \/ Cardinality(DOMAIN tasks) = 1 /\ spawned

\* C11: applying an action a second time leaves the drone as the first application
\* left it: a Spawn for a backend that already has a manager leaves the table with
\* the same managers and that manager in the state it had reached, so it goes on
\* with the state sequence of a single Spawn, and registers nothing. The code builds
\* a new manager in the default state and replaces the old one, so the backend's
\* state sequence starts over.
C11_RepeatedActionNoEffect ==
    [][ \A b \in DroneBackends :
          (b \in DOMAIN managers /\ ApplySpawn(b)) =>
             /\ DOMAIN managers' = DOMAIN managers
             /\ managers'[b].state = managers[b].state
             /\ UNCHANGED <<store_backend, event, containers>> ]_vars

\* C12: apply_action(Terminate) for a backend without a manager completes (the
\* executor keeps running), calls no runtime operation, registers no event, hands
\* the listener nothing and leaves every manager and every stored state as it was.
C12_TerminateMissingIsNoOp ==
    [][ \A b \in DroneBackends, kind \in {"soft", "hard"} :
          (b \notin DOMAIN managers /\ ApplyTerminate(b, kind)) =>
             /\ UNCHANGED <<store_backend, event, next_event_id, managers,
                            containers, terminate_calls, phase>>
             /\ recv' = <<>> ]_vars

\* C12 witness: the executor is serving with a manager for backend 2 and none for
\* backend 1, whose container survived the reconciliation; a Terminate for backend 1
\* finds no manager.
C12_Witness ==
    /\ phase = "running"
    /\ 1 \notin DOMAIN managers /\ 2 \in DOMAIN managers
    /\ 1 \in containers
    /\ ENABLED ApplyTerminate(1, "hard")

\* The backend's journal holds a Ready state: the backend has reached Ready.
EverReady(b) == \E i \in 1..Len(Journal(b)) : Journal(b)[i].status = "ready"

\* C13: a backend's cluster_address is set if and only if the backend has ever
\* reached Ready, and it is then the address of that Ready state. The code writes
\* new_state.address() into cluster_address on every accepted update, so the update
\* to Terminating (or Terminated) after Ready sets the column back to null.
C13_AddressIffEverReady ==
    \A b \in DOMAIN backend :
       /\ (backend[b].cluster_address # NoAddress) <=> EverReady(b)
       /\ \A i \in 1..Len(Journal(b)) :
             Journal(b)[i].status = "ready" =>
                backend[b].cluster_address = Journal(b)[i].address

\* C14: the step of an update_state call that moves a backend to Terminated also
\* removes its backend_key row, so after every step no backend_key row belongs to a
\* Terminated backend; an update_state call removes a key row only in that case (the
\* call returned true and the backend entered Terminated in this step) and never
\* adds one.
C14_KeyDeletedOnTerminated ==
    [][ /\ \A r \in backend_key' :
              Exists(r.id)' => backend'[r.id].last_status # "terminated"
        /\ (CallStep /\ last_call'.op = "update_state") =>
              /\ backend_key' \subseteq backend_key
              /\ \A r \in backend_key \ backend_key' :
                    /\ last_call'.result = "true"
                    /\ backend[r.id].last_status # "terminated"
                    /\ backend'[r.id].last_status = "terminated" ]_vars

\* C14 witness: an accepted update_state just moved the backend created for key k1
\* to Terminated, and the key has no row any more.
C14_Witness ==
    /\ last_call.op = "update_state" /\ last_call.result = "true"
    /\ backend_key = {}
    /\ \E b \in DOMAIN backend :
          /\ backend[b].key = "k1"
          /\ backend[b].last_status = "terminated"
          /\ Len(Journal(b)) >= 2
          /\ Journal(b)[Len(Journal(b))].status = "terminated"

\* The rows that belong to backend b in every table the cleanup pass touches.
RowsOf(b) ==
    [backend |-> IF Exists(b) THEN <<backend[b]>> ELSE <<>>,
     journal |-> Journal(b),
     key     |-> {r \in backend_key : r.id = b},
     action  |-> {a \in backend_action : a.backend_id = b},
     token   |-> b \in token]

\* C15 as stated: every token row belongs to a backend that is not Terminated.
C15_TokenOnlyWhileLive ==
    \A b \in token : Exists(b) /\ backend[b].last_status # "terminated"

\* C15, amended: a token row is removed only by the cleanup pass and only when its
\* backend is Terminated (until then a Terminated backend keeps its token); a
\* backend row removed by the pass takes its token, backend_action and backend_state
\* rows with it; and the pass leaves every row of a backend that is not Terminated
\* as it was.
C15_CleanupDeletesOnlyTerminated ==
    [][ /\ \A b \in token \ token' :
              /\ last_call'.op = "cleanup"
              /\ Exists(b) /\ backend[b].last_status = "terminated"
        /\ (CallStep /\ last_call'.op = "cleanup") =>
              /\ \A b \in DOMAIN backend :
                    backend[b].last_status # "terminated" => RowsOf(b)' = RowsOf(b)
              /\ \A b \in DOMAIN backend \ DOMAIN backend' :
                    /\ b \notin token'
                    /\ b \notin DOMAIN backend_state'
                    /\ \A a \in backend_action' : a.backend_id # b ]_vars

\* C15 witness: a cleanup pass has just deleted a backend while another backend that
\* is not Terminated keeps its token, key, action and journal rows.
C15_Witness ==
    /\ last_call.op = "cleanup" /\ last_call.result = "deleted"
    /\ \E b \in DOMAIN backend :
          /\ backend[b].last_status # "terminated"
          /\ b \in token
          /\ \E r \in backend_key : r.id = b
          /\ \E a \in backend_action : a.backend_id = b
          /\ Len(Journal(b)) >= 1
    /\ Cardinality(DOMAIN backend) < MaxBackends

\* The backends among a set of termination candidates.
CandidateIds(candidates) == {c.backend_id : c \in candidates}

Successive(q, r) == q \in task[r].after \/ r \in task[q].after

\* C17: when two successive schedule requests carry the same lock (the first was
\* answered with a backend before the second arrived, no other request with that
\* lock overlapped the first, and the first backend has not terminated), the second
\* is answered with the same backend_id and the same bearer token, with
\* spawned = false, and no SpawnRequest is sent to a drone on its behalf.
C17_KeyReuse ==
    \A r1, r2 \in DOMAIN task :
       ( /\ r1 \in task[r2].after
         /\ task[r1].lock # NoLock /\ task[r2].lock = task[r1].lock
         /\ task[r1].pc = "done" /\ task[r1].response.kind = "Scheduled"
         /\ task[r2].pc \in {"done", "panicked"}
         /\ task[r1].response.backend_id \notin TerminatedBackends
         /\ \A q \in DOMAIN task \ {r1, r2} :
               task[q].lock = task[r1].lock => Successive(q, r1) )
       => /\ task[r2].pc = "done"
          /\ task[r2].response =
                Scheduled(task[r1].response.drone, task[r1].response.backend_id,
                          task[r1].response.bearer_token, FALSE)
          /\ \A sr \in spawn_requests : sr.request # r2

\* C17 witness: the first request spawned a backend under lock l1 and was answered;
\* the second request, received afterwards with the same lock, has been answered
\* with that backend, which has not terminated.
C17_Witness ==
    /\ DOMAIN task = {1, 2}
    /\ task[1].lock = "l1" /\ task[2].lock = "l1"
    /\ 1 \in task[2].after
    /\ task[1].pc = "done" /\ task[1].response.kind = "Scheduled"
    /\ task[1].response.spawned
    /\ task[2].pc = "done" /\ task[2].response.kind = "Scheduled"
    /\ ~task[2].response.spawned
    /\ TerminatedBackends = {}

\* The outcome of the drone search and of the spawn request of request r: "none"
\* when the request reached neither.
NoDroneCase(r) ==
    /\ task[r].pc \in {"done", "panicked"}
    /\ \/ /\ task[r].pc = "panicked"
          /\ \A sr \in spawn_requests : sr.request # r
       \/ \E sr \in spawn_requests : sr.request = r /\ sr.reply # "true"

\* C18: a request for which no drone was eligible, or whose drone rejected or failed
\* the spawn request, is answered with NoDroneAvailable, and no Assignment is
\* published for it, with or without a lock.
C18_NoDroneAvailable ==
    \A r \in DOMAIN task :
       NoDroneCase(r) =>
          /\ task[r].pc = "done"
          /\ task[r].response = NoDroneAvailable
          /\ \A sr \in spawn_requests :
                sr.request = r => sr.backend_id \notin AssignedBackends

\* The HTTP requests that wait for the route of token t.
WaitingFor(t) == {r \in DOMAIN http : http[r].token = t /\ http[r].response = Waiting}

\* The RouteInfoRequests for token t that were sent and not yet answered.
Outstanding(t) ==
    Cardinality({i \in 1..Len(channel) : channel[i].token = t})
       + (IF t \in inbox THEN 1 ELSE 0)

\* C19: however many lookups wait for the same unknown token, exactly one
\* RouteInfoRequest is outstanding for it (issued by one of them), the sender's
\* channel never holds more than its capacity, and when the RouteInfoResponse for
\* the token arrives every waiting lookup completes with the outcome of that one
\* response.
C19_RequestCoalescing ==
    [][ /\ \A t \in Tokens :
              (WaitingFor(t) # {})' =>
                 /\ Outstanding(t)' = 1
                 /\ Cardinality({m \in sent : m.token = t /\ m.by \in WaitingFor(t)})' = 1
        /\ Len(channel') <= ChannelCapacity
        /\ \A t \in Tokens, info \in RouteInfos :
              ReceiveRouteInfoResponse(t, info) =>
                 /\ WaitingFor(t)' = {}
                 /\ \A r \in WaitingFor(t) :
                       /\ http'[r].response = RouteResponse(http[r].host, info)
                       /\ http'[r].info = info ]_vars

\* C19 witness: two lookups wait for the unknown token abc123, one RouteInfoRequest
\* was issued and has reached the controller side, which is about to answer it.
C19_Witness ==
    /\ WaitingFor("abc123") = {1, 2}
    /\ Cardinality(sent) = 1
    /\ inbox = {"abc123"} /\ channel = <<>>
    /\ ENABLED ReceiveRouteInfoResponse("abc123", NoRouteInfo)

\* The outcome of an answered request without a token prefix.
RootOutcome(r) ==
    /\ IF root_redirect # "none"
       THEN http[r].response = Response(301, root_redirect)
       ELSE http[r].response = Response(400, NoLocation)
    /\ \A m \in sent : m.by # r

\* C20 as stated: no token prefix gives 301 to the configured URL or 400 without a
\* Location, and no RouteInfoRequest; no route info gives 410; an address that
\* cannot be connected to gives 502; every other request gets the backend's
\* response.
C20_OutcomeAsStated ==
    \A r \in DOMAIN http :
       http[r].response # Waiting =>
          IF http[r].token = NoToken THEN RootOutcome(r)
          ELSE IF ~http[r].info.found THEN http[r].response.status = 410
          ELSE IF http[r].info.address = "unreachable"
               THEN http[r].response.status = 502
          ELSE http[r].response.status = 200

\* C20, amended: as stated, except that a request whose host lacks the subdomain
\* the backend requires gets 403 before any connection is attempted; 502 and the
\* backend's response are the outcomes of the requests that pass that check.
C20_Outcome ==
    \A r \in DOMAIN http :
       http[r].response # Waiting =>
          IF http[r].token = NoToken THEN RootOutcome(r)
          ELSE /\ ~http[r].info.found => http[r].response.status = 410
               /\ ( /\ http[r].info.found
                    /\ http[r].info.subdomain \notin {NoSubdomain, http[r].host} )
                  => http[r].response.status = 403
               /\ ( /\ http[r].info.found
                    /\ http[r].info.subdomain \in {NoSubdomain, http[r].host}
                    /\ http[r].info.address = "unreachable" )
                  => http[r].response.status = 502
               /\ ( /\ http[r].info.found
                    /\ http[r].info.subdomain \in {NoSubdomain, http[r].host}
                    /\ http[r].info.address = "reachable" )
                  => http[r].response.status = 200
               /\ http[r].response.location = NoLocation

\* C20 witness: with no root redirect configured, a request without a token was
\* answered 400 and a request whose token resolved to an address that cannot be
\* connected to was answered 502.
C20_Witness ==
    /\ root_redirect = "none"
    /\ \E r1, r2 \in DOMAIN http :
          /\ http[r1].token = NoToken
          /\ http[r1].response = Response(400, NoLocation)
          /\ http[r2].token = "abc123"
          /\ http[r2].info.found /\ http[r2].info.address = "unreachable"
          /\ http[r2].response.status = 502
    /\ Cardinality(sent) = 1

\* The answered requests that carried a token.
Routed == {r \in DOMAIN http : http[r].token # NoToken /\ http[r].response # Waiting}

C22_TokenStrip ==
    /\ \A r \in Routed :
          http[r].response.status = 200 =>
             \A p \in Paths :
                /\ \A t \in Tokens :
                      http[r].uri = <<t>> \o p => http[r].upstream = p
                /\ \A t \in StaticTokens :
                      http[r].uri = <<t>> \o p => http[r].upstream = <<t>> \o p
    /\ \A m \in sent : m.token = http[m.by].uri[1]

\* C22 witness: /abc123/ reached the backend as / and /s.abc123/foo/bar reached it
\* as /s.abc123/foo/bar, each after a RouteInfoRequest of its own.
C22_Witness ==
    /\ \E r1, r2 \in Routed :
          /\ http[r1].uri = <<"abc123", "">>
          /\ http[r1].response.status = 200 /\ http[r1].upstream = <<"">>
          /\ http[r2].uri = <<"s.abc123", "foo", "bar">>
          /\ http[r2].response.status = 200
          /\ http[r2].upstream = <<"s.abc123", "foo", "bar">>
    /\ {m.token : m \in sent} = {"abc123", "s.abc123"}

\* The backend that owns bearer token t: through a row of table token for a
\* non-static token, through backend.static_token for a static one.
Owners(t) ==
    {b \in DOMAIN backend :
        \/ b \in token /\ BearerTokenOf(b) = t
        \/ backend[b].static_token = t}

C24_RenewalRequested ==
    \A k \in KeyConfigs :
       (k \in senders) ~> (k \notin senders \/ \E m \in key_outbox : m.key = k)

\* C25: a registered key whose renewal has not succeeded by soft_terminate_at gets
\* its backend manager signalled to terminate.
C25_TerminationSignalled ==
    \A k \in KeyConfigs :
       (k \in senders /\ key_clock >= watch[SenderOf(k)].value.soft_terminate_at)
          ~> \/ k \notin senders
             \/ key_clock < watch[SenderOf(k)].value.soft_terminate_at
             \/ \E sig \in key_signals : sig.key = k

\* The token under which key k is held, 0 when nobody holds it.
StoredToken(k) == IF k \in DOMAIN key_rows THEN key_rows[k].token ELSE 0

LeaseHolders == {q \in DOMAIN grants : grants[q] > cert_clock}

\* C27: at most one proxy holds an unexpired certificate lease; a CertLeaseRequest
\* is accepted iff no lease is held or the current one has expired; a SetTxtRecord
\* is rejected when another proxy has more recently been granted the lease; after
\* the holder's ReleaseCertLease a request of another proxy is accepted at once.
C27_SingleLease ==
    [][ /\ Cardinality(LeaseHolders') <= 1
        /\ \A proxy \in Proxies :
              /\ CertLeaseRequest(proxy) =>
                    (cert_reply'.accepted <=>
                       (cert_lease.holder = NoProxy \/ cert_lease.expires <= cert_clock))
              /\ \A txt_value \in TxtValues :
                    (SetTxtRecord(proxy, txt_value) /\ last_granted # proxy) =>
                       ~cert_reply'.accepted /\ txt_record' = txt_record
              /\ (ReleaseCertLease(proxy) /\ cert_lease.holder = proxy) =>
                    \A other \in Proxies \ {proxy} :
                       (ENABLED CertLeaseRequest(other))' /\ LeaseFree' ]_vars

\* C27 witness: p1 was granted the lease at time 0 and released it before it
\* expired; p2 asked at once and was accepted, and is the only holder.
C27_Witness ==
    /\ cert_clock < LeaseDuration
    /\ cert_lease.holder = "p2"
    /\ last_granted = "p2"
    /\ LeaseHolders = {"p2"}
    /\ "p1" \notin DOMAIN grants
    /\ txt_record = "v1"
    /\ cert_reply = [proxy |-> "p2", request |-> "CertLeaseRequest", accepted |-> TRUE]

\* The requests the server had accepted when shutdown began, and the requests
\* attempted after that.
AcceptedBefore == {r \in DOMAIN srv_requests : srv_requests[r].phase = "serving"}
AttemptedAfter == DOMAIN srv_requests \ AcceptedBefore

Malformed(line) == line.kind \in {"garbage", "wrongtype", "binary"}

\* The messages recv_task has handed to a channel, in the order it read them.
Dispatched(outcome) ==
    LET lines == SelectSeq(recv_log, LAMBDA e : e.outcome = outcome)
    IN [i \in 1..Len(lines) |-> lines[i].line.n]

\* C29: a line that is not valid JSON for the expected message type is dropped and
\* the connection stays up: recv_task reads the lines in the order they were
\* written, a malformed line never ends the connection, and every well-formed
\* line read while its channel has a receiver is dispatched, with an id to the
\* request channel and without to the event channel, in the order written.
C29_MalformedLineDropped ==
    /\ \A i \in 1..Len(recv_log) :
          /\ recv_log[i].line = sent_lines[i]
          /\ Malformed(recv_log[i].line) => recv_log[i].outcome = "dropped"
          /\ ~Malformed(recv_log[i].line) =>
                recv_log[i].outcome \in {recv_log[i].line.kind, "no-receiver"}
    /\ conn # "read-error"
    /\ [i \in 1..Len(request_rx) |-> request_rx[i].id] = Dispatched("request")
    /\ event_rx = Dispatched("event")

\* The apply_action calls that are waiting for manager.terminate to return.
AwaitingTerminate == {a \in DOMAIN ex_actions : ex_actions[a].pc = "terminate"}

\* C30: no apply_action call holds a Ref into the backends map while it awaits
\* manager.terminate: a Ref is held only by the task the worker thread is running,
\* so the listener's backends.remove never waits for a suspended task, and every
\* call that has looked its manager up goes on to invoke terminate.
C30_NoLockAcrossTerminate ==
    /\ AwaitingTerminate \cap ex_guards = {}
    /\ ex_guards \subseteq {ex_thread}
    /\ (ex_thread = Listener /\ ex_listener.pc = "remove") => ENABLED ListenerRemove
    /\ \A a \in DOMAIN ex_actions :
          ex_thread = a => ex_actions[a].pc = "clone" /\ ENABLED TerminateInvoke(a)
    /\ \A a \in AwaitingTerminate :
          [backend |-> ex_actions[a].backend, call |-> "terminate"] \in ex_calls

\* C30 witness: a Terminate action for backend 1 awaits manager.terminate with no
\* Ref held while the listener, woken by the exit of backend 1, is about to remove
\* it from the map.
C30_Witness ==
    /\ \E a \in AwaitingTerminate : ex_actions[a].backend = 1
    /\ ex_listener = [pc |-> "remove", backend |-> 1]
    /\ 1 \in ex_backends
    /\ ex_guards = {}
    /\ ENABLED ListenerRemove

\* The events this run of the drone registered for backend b: the earlier run used
\* two event ids for each backend it knew.
RunEvents(b) ==
    {e \in event : e.backend_id = b /\ e.id > 2 * Cardinality(DOMAIN store_backend)}

\* What the reconciliation task of backend b has registered and called so far.
ReconcileState(b) ==
    LET t == tasks[b]
        terminating == to_terminating(t.state, "hard", "KeyExpired")
        terminated == to_terminated(t.state, "none")
    IN /\ t.state.status # "terminated"
       /\ t.pc = "register" => RunEvents(b) = {} /\ b \notin terminate_calls
       /\ t.pc \in {"terminate", "finish"} =>
             /\ Cardinality(RunEvents(b)) = 1
             /\ \A e \in RunEvents(b) : e.event = terminating
       /\ t.pc = "terminate" =>
             /\ t.attempt \in 1..MaxAttempts /\ ~t.success
             /\ t.attempt > 1 => b \in terminate_calls
       /\ t.pc \in {"finish", "done"} => b \in terminate_calls
       /\ t.pc = "done" =>
             /\ Cardinality(RunEvents(b)) = 2
             /\ \E e1, e2 \in RunEvents(b) :
                   /\ e1.id < e2.id
                   /\ e1.event = terminating
                   /\ e2.event = terminated /\ e2.event.exit_code = "none"

\* A step of the reconciliation task of backend b that calls runtime.terminate: the
\* call is one of at most MaxAttempts, and the task calls again only after a failure.
ReconcileCall(b) ==
    (tasks[b].pc = "terminate" /\ tasks'[b] # tasks[b]) =>
       /\ b \in terminate_calls'
       /\ RunEvents(b)' = RunEvents(b)
       /\ \/ /\ tasks'[b].pc = "finish"
             /\ tasks'[b].success \/ tasks[b].attempt = MaxAttempts
          \/ /\ tasks'[b].pc = "terminate"
             /\ ~tasks'[b].success
             /\ tasks[b].attempt < MaxAttempts
             /\ tasks'[b].attempt = tasks[b].attempt + 1

\* A state store call of the reconciliation that failed: an attempt to register that
\* added no event, or the query for the active backends.
StoreFailed ==
    \/ \E b \in DOMAIN tasks :
          /\ TaskRegisterTerminating(b) \/ TaskRegisterTerminated(b)
          /\ event' = event
    \/ BootEnumerate /\ phase' # "reconcile"

\* C31: boot-time reconciliation registers for each preexisting active backend
\* exactly two events, hard-terminating with reason KeyExpired and then Terminated
\* with no exit code, and for no other backend; between the two it calls
\* runtime.terminate(b, hard = true) at least once and at most MaxAttempts times and
\* stops at the first success; a failed read or write of the state store aborts the
\* startup, which then does nothing more; and Executor::new comes to an end, completed
\* or aborted, whatever the runtime's calls return.
C31_BootReconciliation ==
    /\ [](/\ \A b \in DOMAIN tasks : ReconcileState(b)
          /\ \A b \in DOMAIN store_backend \ DOMAIN tasks : RunEvents(b) = {}
          /\ phase \in {"reconcile", "running"} =>
                \A b \in DOMAIN store_backend \ DOMAIN tasks :
                   store_backend[b].status = "terminated"
          /\ phase = "running" => \A b \in DOMAIN tasks : tasks[b].pc = "done")
    /\ [][/\ \A b \in DOMAIN tasks : ReconcileCall(b)
          /\ StoreFailed => phase' = "aborted"
          /\ phase = "aborted" =>
                UNCHANGED <<phase, store_backend, event, tasks, exit_listener,
                            containers, terminate_calls>>]_vars
    /\ <>(phase \in {"running", "aborted"})

\* C31 witness: two backends were reconciled and startup completed; the runtime
\* failed all the calls for backend 1, whose container is still there, and killed
\* the container of backend 2.
C31_Witness ==
    /\ phase = "running"
    /\ DOMAIN tasks = {1, 2}
    /\ \A b \in {1, 2} : tasks[b].pc = "done" /\ Cardinality(RunEvents(b)) = 2
    /\ containers = {1}
    /\ Cardinality(event) = 4

\* Backend b is in Waiting, and the sweep of its drone has selected it.
InWaiting(b) == b \in DOMAIN backend /\ backend[b].last_status = "waiting"
Selected(b) == InWaiting(b) /\ b \in CandidateIds(sweep)

\* Backend b was created with an idle allowance or an expiration time.
Limited(b) ==
    \/ timers[b].allowed_idle_seconds # Null
    \/ timers[b].expiration_time # Null

NoBackendFound == [error |-> "no backend found"]

StoreBackendState(b) ==
    IF b \in DOMAIN store_backend THEN store_backend[b] ELSE NoBackendFound

\* The events a step adds to the event table for backend b.
Registered(b) == {e \in event' \ event : e.backend_id = b}

\* C34: the backend table holds, for each backend, the state of the event registered
\* last for it. Every event row belongs to a backend row, and the event registered
\* last of all, while it is unacked, carries the state of its backend's row. A step
\* either registers exactly one event for a backend, under the next event id, and
\* then backend_state returns that event's state, or registers none for it and
\* leaves the answer of backend_state as it was (the error for a backend with no
\* event so far), so a register_event that fails changes neither table.
C34_StateIsLastEvent ==
    /\ [](\A e \in event :
            /\ StoreBackendState(e.backend_id) # NoBackendFound
            /\ e.id < next_event_id
            /\ e.id = next_event_id - 1 => StoreBackendState(e.backend_id) = e.event)
    /\ [][\A b \in DroneBackends :
            IF Registered(b) = {}
            THEN StoreBackendState(b)' = StoreBackendState(b)
            ELSE /\ Registered(b) =
                       {e \in event' : e.backend_id = b /\ e.id = next_event_id}
                 /\ \A e \in Registered(b) : StoreBackendState(b)' = e.event
                 /\ next_event_id' = next_event_id + 1]_vars

\* C34 witness: backend 1 went through two register_event calls in this run, its
\* first event was acked, and the backend table holds the state of the second
\* while backend 2 has no row.
C34_Witness ==
    /\ next_event_id = 3
    /\ event = {e \in event : e.id = 2 /\ e.backend_id = 1}
    /\ event # {}
    /\ \A e \in event : StoreBackendState(1) = e.event /\ e.event.status = "terminating"
    /\ StoreBackendState(2) = NoBackendFound

\* ---------------------------------------------------------------------- C35
\* The backends assigned under the lock whose termination has not been published.
LiveAssigned(lock) ==
    {jetstream[i].backend : i \in {j \in 1..Len(jetstream) :
         /\ jetstream[j].type = "Assignment"
         /\ jetstream[j].lock = lock
         /\ jetstream[j].backend \notin TerminatedBackends}}

\* C35: concurrently handled schedule requests with the same lock spawn at most one
\* backend for the lock: at any time at most one backend that has not terminated
\* was assigned under it, because a request that finds a spawn for the lock in
\* progress, or accepted and not yet applied to the scheduler's state, waits and
\* returns the assigned backend.
C35_OneSpawnPerLock ==
    \A lock \in Locks : Cardinality(LiveAssigned(lock)) <= 1

\* ---------------------------------------------------------------------- C36
\* The ranks of the states in the journal of backend b, in id order.
JournalRanks(b) == [i \in 1..Len(Journal(b)) |-> as_int(Journal(b)[i].status)]

\* C36: update_state accepts a state only when its rank is strictly greater than the
\* stored last_status_number. A call whose state has the stored rank returns false
\* and changes no table and notifies nobody; a call that returns true found a
\* greater rank; whenever a backend's rank changes it grows and one row is added to
\* its journal; so the ranks in a backend's journal increase strictly and the
\* journal has at most one row per status.
C36_StrictRank ==
    /\ [](\A b \in DOMAIN backend_state :
            \A i, j \in 1..Len(Journal(b)) :
               i < j => JournalRanks(b)[i] < JournalRanks(b)[j])
    /\ [][/\ (CallStep /\ last_call'.op = "update_state") =>
               /\ last_call'.cmp = "equal" =>
                     /\ last_call'.result = "false"
                     /\ UNCHANGED <<backend, backend_key, backend_state,
                                    backend_action, token, sub>>
               /\ last_call'.result = "true" => last_call'.cmp = "greater"
          /\ \A b \in DOMAIN backend :
               backend'[b].last_status_number # backend[b].last_status_number =>
                  /\ backend'[b].last_status_number > backend[b].last_status_number
                  /\ Len(Journal(b)') = Len(Journal(b)) + 1
                  /\ Journal(b)'[Len(Journal(b)')] = backend'[b].state]_vars

\* C36 witness: a backend that is Ready at address a1 was offered Ready at address
\* a2, a second state of the same status; the call returned false and the journal
\* still has its three rows, one per status.
C36_Witness ==
    /\ last_call.op = "update_state" /\ last_call.cmp = "equal"
    /\ last_call.result = "false"
    /\ \E b \in DOMAIN backend :
          /\ backend[b].state = Ready("a1")
          /\ Len(Journal(b)) = 3
          /\ Journal(b)[3] = Ready("a1")

\* ---------------------------------------------------------------------- C37
\* C37: once the state store has recorded Terminated for a backend, no later event is
\* registered for it, neither one with a state other than Terminated nor a second
\* Terminated, however runtime exits, Terminate actions and redelivered Spawn
\* actions interleave.
C37_TerminatedIsFinal ==
    [][\A b \in DOMAIN store_backend :
          store_backend[b].status = "terminated" => Registered(b) = {}]_vars

\* ---------------------------------------------------------------------- C38
\* Every request's task comes to an end, with a response or with a panic: no task
\* waits for ever for the read/write lock, a mutex or a notifier.
EveryTaskEnds ==
    \A r \in Requests :
       (r \in DOMAIN task) ~> (r \in DOMAIN task /\ task[r].pc \in {"done", "panicked"})

\* C38: every schedule request run_scheduler takes is eventually answered, and
\* answered once: its response, once set, stays as it is, and its task reaches the
\* point where the response is sent.
C38_EveryRequestAnswered ==
    /\ [][\A r \in DOMAIN task :
            task[r].response # NoResponse => task'[r].response = task[r].response]_vars
    /\ \A r \in Requests :
          (r \in DOMAIN task) ~>
             (r \in DOMAIN task /\ task[r].pc = "done" /\ task[r].response # NoResponse)

\* ---------------------------------------------------------------------- C39
\* The rows that belong to backend b in the tables db.
RowsIn(db, b) ==
    [backend |-> IF b \in DOMAIN db.backend THEN <<db.backend[b]>> ELSE <<>>,
     journal |-> IF b \in DOMAIN db.backend_state THEN db.backend_state[b] ELSE <<>>,
     key     |-> {r \in db.backend_key : r.id = b},
     action  |-> {a \in db.backend_action : a.backend_id = b},
     token   |-> b \in db.token]

\* No row of backend b is left in the tables db.
NoRows(b) == [backend |-> <<>>, journal |-> <<>>, key |-> {}, action |-> {},
              token |-> FALSE]

\* Every token, backend_action, backend_key and backend_state row of the tables db
\* refers to a backend row of db.
Referenced(db) ==
    /\ db.token \subseteq DOMAIN db.backend
    /\ \A a \in db.backend_action : a.backend_id \in DOMAIN db.backend
    /\ \A r \in db.backend_key : r.id \in DOMAIN db.backend
    /\ DOMAIN db.backend_state \subseteq DOMAIN db.backend

\* The cleanup passes that can be run on the present tables, as the rows of
\* deleted_backend and the backend_key rows whose expires_at has passed.
CleanupRuns ==
    {<<D, expired>> : D \in UNION {DeletedBackendTables(old, batch_size) :
                                      old \in SUBSET DOMAIN backend,
                                      batch_size \in BatchSizes},
                      expired \in SUBSET backend_key}

\* C39: in every reachable state of the database, a cleanup pass that commits leaves
\* no token, backend_action, backend_key or backend_state row of a backend it
\* deleted, leaves every reference to a backend row in place, and leaves the rows
\* of every backend it did not select as they were; the step of a committed pass
\* removes the rows of the backends it deletes from all five tables, and the step of
\* a pass that failed, at whichever statement, changes none of the five tables.
C39_CleanupAtomic ==
    /\ [](/\ Referenced(Tables)
          /\ \A run \in CleanupRuns :
                LET db == Cleanup(run[1], run[2])
                IN /\ Referenced(db)
                   /\ \A b \in run[1] : RowsIn(db, b) = NoRows(b)
                   /\ \A b \in Backends \ run[1] : RowsIn(db, b) = RowsOf(b))
    /\ [][(last_call'.op = "cleanup") =>
             /\ \A b \in DOMAIN backend \ DOMAIN backend' : RowsOf(b)' = NoRows(b)
             /\ last_call'.result = "error" =>
                   UNCHANGED <<backend, backend_key, backend_state, backend_action,
                               token>>]_vars

\* C39 witness: a cleanup pass failed while a Terminated backend with a token, an
\* action row and a journal was there to be deleted, next to a backend that holds
\* a key.
C39_Witness ==
    /\ last_call.op = "cleanup" /\ last_call.result = "error"
    /\ \E b \in DOMAIN backend :
          /\ backend[b].last_status = "terminated"
          /\ b \in token
          /\ \E a \in backend_action : a.backend_id = b
          /\ Len(Journal(b)) >= 2
    /\ \E r \in backend_key : backend[r.id].last_status # "terminated"

\* ---------------------------------------------------------------------- C40
\* A terminate call whose offline heartbeat was recorded has returned.
Terminated40 ==
    \E t \in DOMAIN terminate_pc : terminate_pc[t] = "returned" /\ t \notin hb_failed

\* The first online heartbeat is recorded before the HTTP server serves.
OnlineBeforeServing ==
    http_server # "none" => (hb_log # <<>> /\ hb_log[1])

\* A server that has stopped stays stopped, is signalled at most once, and a
\* terminate call that finds the sender taken sends no signal.
TerminateOnce ==
    /\ [](signals_sent <= 1)
    /\ [][/\ http_server = "stopped" => http_server' = "stopped"
          /\ (run_pc = "running" /\ ~graceful_terminate_sender) =>
                signals_sent' = signals_sent]_vars

\* C40: the first online heartbeat is recorded before the HTTP server serves; once
\* a terminate call that recorded its offline heartbeat has returned, the last
\* heartbeat recorded is offline and no online heartbeat is recorded afterwards,
\* wherever the heartbeat task was in its loop when it was aborted; and a second
\* terminate call neither restarts nor stops the server again.
C40_OfflineIsLast ==
    /\ []OnlineBeforeServing
    /\ [](Terminated40 => ~hb_log[Len(hb_log)])
    /\ [][Terminated40 => \A i \in Len(hb_log) + 1..Len(hb_log') : ~hb_log'[i]]_vars
    /\ TerminateOnce

====
